---- MODULE Spec2Model ----
(***************************************************************************)
(* IPEDS ingestion core of texas-cc-benchmarking: naming, fetch, extract,  *)
(* and the staged-file load into the warehouse, as state machines.         *)
(*                                                                         *)
(* Text the code takes apart (table names, file names, archive entry      *)
(* names) is a sequence of one-character strings, so that lower(),        *)
(* endswith() and slicing are computed and not assumed.                   *)
(***************************************************************************)
EXTENDS Integers, Sequences, FiniteSets, Bags, TLC

(***************************************************************************)
(* Bounds of the model.                                                    *)
(***************************************************************************)
\* concurrently running asset tasks
NumTasks == 2
\* loads started in one behaviour, over all tasks
MaxLoads == 2
\* datasets (in the order of IPEDS_DATASETS) the load tasks draw from
NumAssets == 2
\* partition years (the latest ones) the load tasks draw from
NumPartitions == 2
\* row keys of a record set are 0..MaxRowKey
MaxRowKey == 1
\* years after the cutover year that the download inputs cover
YearsAfterCutover == 1
\* years before the cutover year that the download inputs cover
YearsBeforeCutover == 4
\* entries of a fetched archive
MaxEntries == 2
\* readings of time.time(), in seconds
MaxClock == 1
\* characters of a raw column header
MaxHeaderLen == 3
\* institution identifiers are 1..MaxUnitid
MaxUnitid == 3
\* rows of a record set handed to filter_by_unitids
MaxRows == 3
\* rows of an institutional-characteristics file
MaxHdRows == 1
\* years given to get_texas_cc_unitids
MaxYears == 2
\* files of the seeds directory
MaxSeeds == 2
\* dataset codes the --datasets argument chooses from
MaxDatasets == 2

(***************************************************************************)
(* Program constants.                                                      *)
(***************************************************************************)
\* assets.py:105, download_ipeds.py:66: year >= 2023 selects the generator
CutoverYear == 2023

(***************************************************************************)
(* Text helpers: Python's str(int), s[-2:], s.lower(), s.endswith().       *)
(***************************************************************************)
UpperAlpha == <<"A","B","C","D","E","F","G","H","I","J","K","L","M",
                "N","O","P","Q","R","S","T","U","V","W","X","Y","Z">>
LowerAlpha == <<"a","b","c","d","e","f","g","h","i","j","k","l","m",
                "n","o","p","q","r","s","t","u","v","w","x","y","z">>
Digits == <<"0","1","2","3","4","5","6","7","8","9">>

RECURSIVE StrNat(_)
StrNat(n) == IF n < 10 THEN <<Digits[n + 1]>>
             ELSE StrNat(n \div 10) \o <<Digits[(n % 10) + 1]>>

\* str(n) for a Python int
Str(n) == IF n < 0 THEN <<"-">> \o StrNat(0 - n) ELSE StrNat(n)

\* s[-2:]
LastTwo(s) == IF Len(s) <= 2 THEN s ELSE SubSeq(s, Len(s) - 1, Len(s))

LowerChar(c) == IF \E i \in 1..26 : UpperAlpha[i] = c
                THEN LowerAlpha[CHOOSE i \in 1..26 : UpperAlpha[i] = c]
                ELSE c

\* s.lower()
Lower(s) == [i \in 1..Len(s) |-> LowerChar(s[i])]

\* the characters the model writes by code point: U+FEFF, and the three
\* characters the bytes EF BB BF are when read as latin-1
FEFF == "U+FEFF"
I_DIAERESIS == "U+00EF"
BOM_LATIN1 == <<I_DIAERESIS, "U+00BB", "U+00BF">>

UpperChar(c) == IF \E i \in 1..26 : LowerAlpha[i] = c
                THEN UpperAlpha[CHOOSE i \in 1..26 : LowerAlpha[i] = c]
                ELSE IF c = I_DIAERESIS THEN "U+00CF" ELSE c

\* s.upper()
Upper(s) == [i \in 1..Len(s) |-> UpperChar(s[i])]

\* the characters s.strip() removes
Whitespace == {" ", "\t", "\n", "\r"}

RECURSIVE LStrip(_)
LStrip(s) == IF s # <<>> /\ Head(s) \in Whitespace THEN LStrip(Tail(s)) ELSE s

RECURSIVE RStrip(_)
RStrip(s) == IF s # <<>> /\ s[Len(s)] \in Whitespace
             THEN RStrip(SubSeq(s, 1, Len(s) - 1)) ELSE s

\* s.strip()
Strip(s) == RStrip(LStrip(s))

\* s.startswith(prefix)
StartsWith(s, prefix) ==
    /\ Len(s) >= Len(prefix)
    /\ SubSeq(s, 1, Len(prefix)) = prefix

\* s.endswith(suffix)
EndsWith(s, suffix) ==
    /\ Len(s) >= Len(suffix)
    /\ SubSeq(s, Len(s) - Len(suffix) + 1, Len(s)) = suffix

(***************************************************************************)
(* Dataset codes and the Naming Resolver.                                  *)
(***************************************************************************)
HD   == <<"H","D">>
C_A  == <<"C","_","A">>
EFFY == <<"E","F","F","Y">>
GR   == <<"G","R">>
SFA  == <<"S","F","A">>
EF_D == <<"E","F","_","D">>
\* a code no rule names
IC   == <<"I","C">>

\* the assets of the pipeline, in the order of IPEDS_DATASETS
AssetKeys == <<"hd", "c_a", "effy", "gr", "sfa", "ef_d">>

\* IPEDS_DATASETS[a]["name"], the code each asset downloads
AssetCode(a) == CASE a = "hd"   -> HD
                  [] a = "c_a"  -> C_A
                  [] a = "effy" -> EFFY
                  [] a = "gr"   -> GR
                  [] a = "sfa"  -> SFA
                  [] a = "ef_d" -> EF_D

\* IPEDS_DATASETS[a]["table"], the table each asset loads
AssetTable(a) == AssetCode(a)

\* StaticPartitionsDefinition(["2020", ..., "2024"])
ipeds_years_partitions == 2020..2024

\* a mutant of get_table_name: the academic-year rule takes year and year+1
get_table_name_next_year(dataset_code, year) ==
    IF dataset_code = C_A THEN <<"C">> \o Str(year) \o <<"_","A">>
    ELSE IF dataset_code = SFA
         THEN SFA \o LastTwo(Str(year)) \o LastTwo(Str(year + 1))
    ELSE IF dataset_code = EF_D THEN <<"E","F">> \o Str(year) \o <<"D">>
    ELSE dataset_code \o Str(year)

get_table_name(dataset_code, year) ==
    IF dataset_code = C_A THEN <<"C">> \o Str(year) \o <<"_","A">>
    ELSE IF dataset_code = SFA
         THEN LET prev_year == LastTwo(Str(year - 1))
                  curr_year == LastTwo(Str(year))
              IN  SFA \o prev_year \o curr_year
    ELSE IF dataset_code = EF_D THEN <<"E","F">> \o Str(year) \o <<"D">>
    ELSE dataset_code \o Str(year)

\* a mutant of script_table_name: the standard format for every dataset
script_table_name_standard(dataset, year) == dataset \o Str(year)

\* the table name download_dataset of the script computes (no EF_D rule)
script_table_name(dataset, year) ==
    IF dataset = C_A THEN <<"C">> \o Str(year) \o <<"_","A">>
    ELSE IF dataset = SFA
         THEN LET prev_year == LastTwo(Str(year - 1))
                  curr_year == LastTwo(Str(year))
              IN  SFA \o prev_year \o curr_year
    ELSE dataset \o Str(year)

(***************************************************************************)
(* Record sets.  A CSV file is its header, its rows and whether its bytes  *)
(* begin with EF BB BF; a row key of 0 is a row whose fields the inferred  *)
(* column types cannot hold, which COPY with ON_ERROR = 'CONTINUE' skips.  *)
(***************************************************************************)
UNITID == <<"U","N","I","T","I","D">>
YEAR   == <<"Y","E","A","R">>

RowKeys == 0..MaxRowKey

RECURSIVE SortedSeq(_)
\* the elements of a set of integers, ascending
SortedSeq(S) == IF S = {} THEN <<>>
                ELSE LET m == CHOOSE x \in S : \A y \in S : x <= y
                     IN  <<m>> \o SortedSeq(S \ {m})

\* a CSV file with one UNITID column and one row per key
CsvOf(keys) == [cols |-> <<UNITID>>,
                rows |-> [i \in 1..Len(SortedSeq(keys)) |-> <<SortedSeq(keys)[i]>>],
                bom |-> FALSE]

\* the CSV files an archive entry of a load task holds
LoadCsvs == { CsvOf(K) : K \in (SUBSET RowKeys) \ {{}} }

\* the CSV files an archive entry of the download inputs holds
EntryCsvs == { CsvOf({k}) : k \in RowKeys }

\* the header read_csv makes of a file's first line: the parser skips
\* the bytes EF BB BF of a UTF-8 file, while latin-1 decodes them into
\* three characters in front of the first column name
DecodeHeader(csv, encoding) ==
    IF csv.bom /\ encoding # "utf-8" /\ csv.cols # <<>>
    THEN [csv.cols EXCEPT ![1] = BOM_LATIN1 \o @]
    ELSE csv.cols

\* pd.read_csv(csv_file, encoding=encoding, low_memory=False)
read_csv(csv, encoding) ==
    [cols |-> DecodeHeader(csv, encoding), rows |-> csv.rows, encoding |-> encoding]

\* the index of column name in df, 0 when absent
ColIndex(df, name) == IF \E i \in 1..Len(df.cols) : df.cols[i] = name
                      THEN CHOOSE i \in 1..Len(df.cols) : df.cols[i] = name
                      ELSE 0

\* a mutant of SetYear: the column is appended whatever the header holds
SetYearAppend(df, year) ==
    [df EXCEPT !.cols = Append(@, YEAR),
               !.rows = [i \in 1..Len(@) |-> Append(@[i], year)]]

\* df["YEAR"] = year: overwrite the column named exactly YEAR, or append it
SetYear(df, year) ==
    LET at == ColIndex(df, YEAR)
    IN  IF at = 0
        THEN [df EXCEPT !.cols = Append(@, YEAR),
                        !.rows = [i \in 1..Len(@) |-> Append(@[i], year)]]
        ELSE [df EXCEPT !.rows = [i \in 1..Len(@) |-> [@[i] EXCEPT ![at] = year]]]

NoDf == [cols |-> <<>>, rows |-> <<>>, encoding |-> "none"]

(***************************************************************************)
(* Column names, as the script looks them up.                              *)
(***************************************************************************)
\* a mutant of clean_column_name: the first character is cut off unchecked
clean_column_name_always_cut(col) ==
    LET cleaned == Strip(col)
        no_bom == IF cleaned # <<>> THEN Tail(cleaned) ELSE cleaned
        no_latin1 == IF StartsWith(no_bom, BOM_LATIN1)
                     THEN SubSeq(no_bom, 4, Len(no_bom)) ELSE no_bom
    IN  Upper(Strip(no_latin1))

\* a mutant of clean_column_name: upper() without the second strip()
clean_column_name_one_strip(col) ==
    LET cleaned == Strip(col)
        no_bom == IF StartsWith(cleaned, <<FEFF>>) THEN Tail(cleaned) ELSE cleaned
        no_latin1 == IF StartsWith(no_bom, BOM_LATIN1)
                     THEN SubSeq(no_bom, 4, Len(no_bom)) ELSE no_bom
    IN  Upper(no_latin1)

\* cleaned = col.strip(); drop a leading U+FEFF; drop a leading latin-1
\* reading of EF BB BF; return cleaned.strip().upper()
clean_column_name(col) ==
    LET cleaned == Strip(col)
        no_bom == IF StartsWith(cleaned, <<FEFF>>) THEN Tail(cleaned) ELSE cleaned
        no_latin1 == IF StartsWith(no_bom, BOM_LATIN1)
                     THEN SubSeq(no_bom, 4, Len(no_bom)) ELSE no_bom
    IN  Upper(Strip(no_latin1))

(***************************************************************************)
(* Fetcher and Extractor: download_ipeds_file (pipeline) and               *)
(* download_dataset (script).                                              *)
(***************************************************************************)
IPEDS_BASE_URL == "https://nces.ed.gov/ipeds/datacenter/data"
GENERATOR_URL  == "https://nces.ed.gov/ipeds/data-generator"
DOT_ZIP == <<".","z","i","p">>
DOT_CSV == <<".","c","s","v">>

\* the URL and the decoding of one download, by era
BuildRequestLegacyAt2023(table_name, year, clock) ==
    IF year > CutoverYear
    THEN [url |-> [endpoint |-> GENERATOR_URL, file |-> <<>>,
                   query |-> << <<"year", Str(year)>>,
                                <<"tableName", table_name>>,
                                <<"HasRV", <<"0">> >>,
                                <<"type", <<"c","s","v">> >>,
                                <<"t", Str(clock * 1000)>> >>],
          encoding |-> "utf-8"]
    ELSE [url |-> [endpoint |-> IPEDS_BASE_URL, file |-> table_name \o DOT_ZIP,
                   query |-> <<>>],
          encoding |-> "latin-1"]

BuildRequest(table_name, year, clock) ==
    IF year >= CutoverYear
    THEN [url |-> [endpoint |-> GENERATOR_URL, file |-> <<>>,
                   query |-> << <<"year", Str(year)>>,
                                <<"tableName", table_name>>,
                                <<"HasRV", <<"0">> >>,
                                <<"type", <<"c","s","v">> >>,
                                <<"t", Str(clock * 1000)>> >>],
          encoding |-> "utf-8"]
    ELSE [url |-> [endpoint |-> IPEDS_BASE_URL, file |-> table_name \o DOT_ZIP,
                   query |-> <<>>],
          encoding |-> "latin-1"]

\* what requests.get followed by raise_for_status ends in
TransportFailures == {"http_error", "timeout", "connection_error"}

\* [f for f in z.namelist() if f.lower().endswith(".csv")]
RECURSIVE CsvFilesCaseSensitive(_)
CsvFilesCaseSensitive(entries) ==
    IF entries = <<>> THEN <<>>
    ELSE (IF EndsWith(Head(entries).name, DOT_CSV) THEN <<Head(entries)>> ELSE <<>>)
         \o CsvFilesCaseSensitive(Tail(entries))

RECURSIVE CsvFiles(_)
CsvFiles(entries) ==
    IF entries = <<>> THEN <<>>
    ELSE (IF EndsWith(Lower(Head(entries).name), DOT_CSV)
          THEN <<Head(entries)>> ELSE <<>>)
         \o CsvFiles(Tail(entries))

\* what leaves a download: the DataFrame, or the exception raised (pipeline) or
\* None (script); message is what was logged or printed last, tag the table name
\* that message carries (<<>> when it carries none)
Outcome(status, df, csv_filename, text, tag) ==
    [status |-> status, df |-> df, csv_filename |-> csv_filename,
     message |-> [text |-> text, tag |-> tag]]

\* zipfile.ZipFile(io.BytesIO(response.content)) .. return df, in the pipeline
ExtractPipelineLastMatch(table_name, content, encoding, year) ==
    IF content.kind # "zip"
    THEN Outcome("BadZipFile", NoDf, <<>>, "Invalid ZIP file", table_name)
    ELSE LET csv_files == CsvFiles(content.entries)
         IN  IF csv_files = <<>>
             THEN Outcome("ValueError", NoDf, <<>>, "No CSV file found", table_name)
             ELSE Outcome("ok",
                          SetYear(read_csv(csv_files[Len(csv_files)].csv, encoding), year),
                          csv_files[Len(csv_files)].name,
                          "Successfully downloaded", table_name)

ExtractPipeline(table_name, content, encoding, year) ==
    IF content.kind # "zip"
    THEN Outcome("BadZipFile", NoDf, <<>>, "Invalid ZIP file", table_name)
    ELSE LET csv_files == CsvFiles(content.entries)
         IN  IF csv_files = <<>>
             THEN Outcome("ValueError", NoDf, <<>>, "No CSV file found", table_name)
             ELSE Outcome("ok",
                          SetYear(read_csv(csv_files[1].csv, encoding), year),
                          csv_files[1].name,
                          "Successfully downloaded", table_name)

\* the same steps in the script: every failure is printed and returns None
ExtractScript(table_name, content, encoding, year) ==
    IF content.kind # "zip"
    THEN Outcome("None", NoDf, <<>>, "Invalid zip file", <<>>)
    ELSE LET csv_files == CsvFiles(content.entries)
         IN  IF csv_files = <<>>
             THEN Outcome("None", NoDf, <<>>, "No CSV file found",
                          IF year >= CutoverYear THEN <<>> ELSE table_name)
             ELSE Outcome("ok",
                          SetYear(read_csv(csv_files[1].csv, encoding), year),
                          csv_files[1].name, "Loaded", <<>>)

\* except requests.exceptions.RequestException: log and raise (pipeline),
\* print and return None (script)
TransportOutcome(impl, table_name) ==
    IF impl = "pipeline"
    THEN Outcome("RequestException", NoDf, <<>>, "Failed to download", table_name)
    ELSE Outcome("None", NoDf, <<>>, "Failed to download", <<>>)

Extract(impl, table_name, content, encoding, year) ==
    IF impl = "pipeline"
    THEN ExtractPipeline(table_name, content, encoding, year)
    ELSE ExtractScript(table_name, content, encoding, year)

\* the table name each implementation resolves
ResolveName(impl, code, year) ==
    IF impl = "pipeline" THEN get_table_name(code, year)
    ELSE script_table_name(code, year)

\* download_ipeds_file(dataset_code, year, context) as one call, for a response
download_ipeds_file(dataset_code, year, response, clock) ==
    LET table_name == get_table_name(dataset_code, year)
        req == BuildRequest(table_name, year, clock)
    IN  IF response.status \in TransportFailures
        THEN TransportOutcome("pipeline", table_name)
        ELSE ExtractPipeline(table_name, response.content, req.encoding, year)

(***************************************************************************)
(* Inputs of a download.                                                   *)
(***************************************************************************)
\* archive entry names: two that end in .csv in either case, two that do not
EntryNames == { <<"a">> \o DOT_CSV,
                <<"B",".","C","S","V">>,
                <<"r",".","t","x","t">>,
                <<"c","s","v">> }

Entries == [name : EntryNames, csv : EntryCsvs]

RECURSIVE SeqsUpTo(_, _)
\* the sequences over S of length at most n
SeqsUpTo(S, n) == IF n = 0 THEN {<<>>}
                  ELSE LET shorter == SeqsUpTo(S, n - 1)
                       IN  shorter \cup { Append(q, x) : q \in shorter, x \in S }

\* response.content: a readable archive, or bytes that are no archive
\* (plain delimited text)
Contents == { [kind |-> "zip", entries |-> es] : es \in SeqsUpTo(Entries, MaxEntries) }
            \cup { [kind |-> "text", entries |-> <<e>>] :
                       e \in [name : {<<>>}, csv : EntryCsvs] }

NoContent == [kind |-> "none", entries |-> <<>>]

Responses == { [status |-> "ok", content |-> c] : c \in Contents }
             \cup { [status |-> f, content |-> NoContent] : f \in TransportFailures }

\* the years the download inputs cover
DownloadYears == (CutoverYear - YearsBeforeCutover)..(CutoverYear + YearsAfterCutover)

\* the codes each implementation is called with: the pipeline's six and one
\* it does not know; the choices of the script's --datasets argument
PipelineCodes == {HD, C_A, EFFY, GR, SFA, EF_D, IC}
DATASETS == {HD, C_A, EFFY, GR, SFA}

DownloadUnits == { [impl |-> "pipeline", code |-> c, year |-> y] :
                       c \in PipelineCodes, y \in DownloadYears }
                 \cup { [impl |-> "script", code |-> c, year |-> y] :
                       c \in DATASETS, y \in DownloadYears }

\* a year no download asks for, as the value of a YEAR column of a source file
StaleYear == CutoverYear - YearsBeforeCutover - 1

\* the headers of the source files whose columns the download passes on:
\* lower case, a space, a hyphen, and a year column in three spellings
SourceHeaders ==
    { <<UNITID>>,
      <<Lower(UNITID)>>,
      <<<<"I","n","s","t"," ","N","m">>>>,
      <<<<"A","-","B">>>>,
      <<UNITID, YEAR>>,
      <<UNITID, Lower(YEAR)>>,
      <<UNITID, <<"Y","e","a","r">>>> }

\* a source file with that header: one row per key above 0, its year
\* column, if any, holding StaleYear
HeaderCsv(cols, bom) ==
    [cols |-> cols,
     rows |-> [i \in 1..MaxRowKey |->
                 [j \in 1..Len(cols) |-> IF Upper(cols[j]) = YEAR THEN StaleYear ELSE i]],
     bom |-> bom]

HeaderCsvs == { HeaderCsv(h, b) : h \in SourceHeaders, b \in BOOLEAN }

\* the responses whose archive holds one such file, and one failure
HeaderResponses ==
    { [status |-> "timeout", content |-> NoContent] }
    \cup { [status |-> "ok",
            content |-> [kind |-> "zip",
                         entries |-> <<[name |-> <<"a">> \o DOT_CSV, csv |-> c]>>]] :
           c \in HeaderCsvs }

(***************************************************************************)
(* State.                                                                  *)
(***************************************************************************)
VARIABLES
    dl,       \* one download unit: its inputs, position, request and outcome
    task,     \* per asset task: position in ipeds_* / load_to_snowflake, locals
    tables,   \* the warehouse tables, by name
    formats,  \* the file formats that exist in the warehouse schema
    stage,    \* the files under @~/staged, by name
    tmp,      \* the files under /tmp, by name
    started,  \* loads started so far
    snap,     \* history: tables when the current batch of loads began
    batch,    \* history: the loads begun since no load was running
    hdr,      \* one call of clean_column_name: its argument and result
    flt,      \* one call of filter_by_unitids: its arguments and result
    ids,      \* one call of get_texas_cc_unitids: its position and locals
    up,       \* one run of upload_to_snowflake.py: its position and locals
    rs,       \* one dataset and year resolved by the script and by the pipeline
    nm,       \* the file names of two loads
    main      \* one run of download_ipeds.py: its position, locals and output

scriptVars == <<hdr, flt, ids, up, rs, nm, main>>
vars == <<dl, task, tables, formats, stage, tmp, started, snap, batch, scriptVars>>
loadVars == <<task, tables, formats, stage, tmp, started, snap, batch>>

(***************************************************************************)
(* One download, step by step.                                             *)
(***************************************************************************)
Clock == 1..MaxClock

NoUrl == [endpoint |-> "", file |-> <<>>, query |-> <<>>]
NoResponse == [status |-> "none", content |-> NoContent]
NoOutcome == Outcome("none", NoDf, <<>>, "", <<>>)

DlStart(u) == [impl |-> u.impl, code |-> u.code, year |-> u.year, pc |-> "resolve",
               clock |-> 0, table_name |-> <<>>, url |-> NoUrl, encoding |-> "none",
               requests |-> 0, response |-> NoResponse, outcome |-> NoOutcome]

\* table_name = ...; timestamp = str(int(time.time() * 1000)); url = ...; encoding = ...
DlResolve ==
    /\ dl.pc = "resolve"
    /\ \E clock \in Clock :
         LET table_name == ResolveName(dl.impl, dl.code, dl.year)
             req == BuildRequest(table_name, dl.year, clock)
         IN  dl' = [dl EXCEPT !.pc = "get", !.clock = clock, !.table_name = table_name,
                              !.url = req.url, !.encoding = req.encoding]
    /\ UNCHANGED <<loadVars, scriptVars>>

\* the position after requests.get and raise_for_status
AfterGetRetry(response) ==
    IF response.status = "timeout" THEN "get"
    ELSE IF response.status \in TransportFailures THEN "except" ELSE "extract"
AfterGet(response) ==
    IF response.status \in TransportFailures THEN "except" ELSE "extract"

\* response = requests.get(url, headers=..., timeout=300); response.raise_for_status()
\* with the response one of those the server may give
DlGetFrom(responses) ==
    /\ dl.pc = "get"
    /\ \E r \in responses :
         dl' = [dl EXCEPT !.pc = AfterGet(r), !.response = r,
                          !.requests = @ + 1]
    /\ UNCHANGED <<loadVars, scriptVars>>

DlGet == DlGetFrom(Responses)

\* the same request, answered with the source files of SourceHeaders
DlGetHeaders == DlGetFrom(HeaderResponses)

\* except requests.exceptions.RequestException
DlTransportError ==
    /\ dl.pc = "except"
    /\ dl' = [dl EXCEPT !.pc = "done",
                        !.outcome = TransportOutcome(dl.impl, dl.table_name)]
    /\ UNCHANGED <<loadVars, scriptVars>>

\* with zipfile.ZipFile(...) as z: ... df["YEAR"] = year; return df
DlExtract ==
    /\ dl.pc = "extract"
    /\ dl' = [dl EXCEPT !.pc = "done",
                        !.outcome = Extract(dl.impl, dl.table_name, dl.response.content,
                                            dl.encoding, dl.year)]
    /\ UNCHANGED <<loadVars, scriptVars>>

(***************************************************************************)
(* The warehouse and the local disk, as load_to_snowflake uses them.       *)
(***************************************************************************)
Tasks == 1..NumTasks

\* the assets and partitions the load tasks are started for
LoadAssets == { AssetKeys[i] : i \in 1..NumAssets }
LoadYears == { y \in ipeds_years_partitions : y > 2024 - NumPartitions }
TableNames == { AssetTable(a) : a \in LoadAssets }

\* the responses a load task's download receives: one of each failure, and
\* an archive whose CSV entry follows a text file
LoadResponses ==
    { [status |-> "timeout", content |-> NoContent],
      [status |-> "ok", content |-> [kind |-> "text",
                                     entries |-> <<[name |-> <<>>, csv |-> CsvOf({1})]>>]],
      [status |-> "ok", content |-> [kind |-> "zip",
                                     entries |-> <<[name |-> <<"r",".","t","x","t">>,
                                                    csv |-> CsvOf({1})]>>]] }
    \cup { [status |-> "ok",
            content |-> [kind |-> "zip",
                         entries |-> <<[name |-> <<"r",".","t","x","t">>, csv |-> CsvOf({1})],
                                       [name |-> <<"a">> \o DOT_CSV, csv |-> c]>>]] :
           c \in LoadCsvs }

NoTable == [exists |-> FALSE, cols |-> <<>>, rows |-> EmptyBag]
NoFiles == [n \in {} |-> [cols |-> <<>>, rows |-> <<>>]]

WriteFile(fs, name, data) ==
    [n \in (DOMAIN fs) \cup {name} |-> IF n = name THEN data ELSE fs[n]]
RemoveFile(fs, name) == [n \in (DOMAIN fs) \ {name} |-> fs[n]]

RECURSIVE SeqToBag(_)
SeqToBag(q) == IF q = <<>> THEN EmptyBag ELSE SetToBag({Head(q)}) (+) SeqToBag(Tail(q))

\* df.to_csv(temp_csv, index=False, encoding="utf-8")
to_csv(df) == [cols |-> df.cols, rows |-> df.rows]

\* a row COPY cannot convert to the inferred column types
Rejected(row) == row[1] = 0

\* the rows of a file that COPY INTO ... ON_ERROR = 'CONTINUE' loads
Accepted(file) == SelectSeq(file.rows, LAMBDA row : ~Rejected(row))

\* a mutant of CsvFilename: the name of the table alone
CsvFilenameWithoutYear(table_name, year) == Lower(table_name) \o DOT_CSV

\* csv_filename = f"{table_name.lower()}_{year}.csv" if year else f"{table_name.lower()}.csv"
CsvFilename(table_name, year) ==
    IF year # 0 THEN Lower(table_name) \o <<"_">> \o Str(year) \o DOT_CSV
    ELSE Lower(table_name) \o DOT_CSV

\* CREATE OR REPLACE TABLE t USING TEMPLATE (... INFER_SCHEMA(staged file) ...)
CreateKeepingRows(old, file) ==
    [exists |-> TRUE, cols |-> file.cols, rows |-> old.rows]
CreateOrReplace(old, file) ==
    [exists |-> TRUE, cols |-> file.cols, rows |-> EmptyBag]

\* COPY INTO t FROM staged file
CopyIntoAllRows(table, file) == [table EXCEPT !.rows = @ (+) SeqToBag(file.rows)]
CopyInto(table, file) == [table EXCEPT !.rows = @ (+) SeqToBag(Accepted(file))]

\* a mutant of CountRows: the header line is counted as a row
CountRowsWithHeader(table) == BagCardinality(table.rows) + 1

\* SELECT COUNT(*) FROM t
CountRows(table) == BagCardinality(table.rows)

(***************************************************************************)
(* An asset task: ipeds_hd .. ipeds_ef_d, each download_ipeds_file then    *)
(* load_to_snowflake(df, table, snowflake, context, year).                 *)
(***************************************************************************)
\* a statement the cursor executed: its verb and what it names
Statement(verb, format, table, file, on_error) ==
    [verb |-> verb, format |-> format, table |-> table, file |-> file,
     on_error |-> on_error]

\* what a call of load_to_snowflake gave its caller: nothing yet, the
\* None of a function without return statement, or an exception
NotReturned == [kind |-> "pending", value |-> -1]
ReturnsNone == [kind |-> "None", value |-> -1]
Raised == [kind |-> "raised", value |-> -1]

\* ran: the statements executed so far; logged: the number in the message
\* "Successfully loaded ... rows"
IdleTask == [pc |-> "idle", asset |-> "none", year |-> 0, df |-> NoDf,
             conn |-> "none", cursor |-> "none", failed_at |-> "", row_count |-> -1,
             ran |-> <<>>, logged |-> -1, returned |-> NotReturned]

Quiescent(t) == task[t].pc \in {"idle", "done", "failed"}

\* a mutant of Table: every load writes the table of the first asset
TableOfFirstAsset(t) == AssetTable(AssetKeys[1])

Table(t) == AssetTable(task[t].asset)
Staged(t) == CsvFilename(Table(t), task[t].year)
\* temp_csv = Path(f"/tmp/{csv_filename}")
TempCsv(t) == Staged(t)

\* finally: cursor.close(); conn.close()
FinallyLeavingOpen(rec) == [rec EXCEPT !.cursor = "closed"]
Finally(rec) == [rec EXCEPT !.cursor = "closed", !.conn = "closed"]

\* an exception inside the try block: the finally clause runs and the
\* exception leaves load_to_snowflake and the asset
Raise(t, step) ==
    task' = [task EXCEPT ![t] = Finally([@ EXCEPT !.pc = "failed", !.failed_at = step,
                                                   !.returned = Raised])]
Goto(t, pc) == task' = [task EXCEPT ![t].pc = pc]

\* cursor.execute(statement) returned: on to the next step
Executed(t, statement, pc) ==
    task' = [task EXCEPT ![t].pc = pc, ![t].ran = Append(@, statement)]

\* a mutant of Prologue: the connection is opened before the download
PrologueConnectFirst(a, y, r) ==
    LET out == download_ipeds_file(AssetCode(a), y, r, 1)
        mine == [IdleTask EXCEPT !.asset = a, !.year = y, !.conn = "open"]
    IN  IF out.status # "ok"
        THEN {[mine EXCEPT !.pc = "failed", !.failed_at = out.status,
                           !.returned = Raised]}
        ELSE {[mine EXCEPT !.pc = "failed", !.failed_at = "cursor", !.df = out.df,
                           !.returned = Raised],
              [mine EXCEPT !.pc = "format_infer", !.df = out.df, !.cursor = "open"]}

\* the steps of an asset that touch nothing shared, up to the try block:
\* df = download_ipeds_file(...); conn = snowflake.get_connection();
\* cursor = conn.cursor().  Each may raise, which ends the asset there.
Prologue(a, y, r) ==
    LET out == download_ipeds_file(AssetCode(a), y, r, 1)
        mine == [IdleTask EXCEPT !.asset = a, !.year = y]
    IN  IF out.status # "ok"
        THEN {[mine EXCEPT !.pc = "failed", !.failed_at = out.status,
                           !.returned = Raised]}
        ELSE {[mine EXCEPT !.pc = "failed", !.failed_at = "connect", !.df = out.df,
                           !.returned = Raised],
              [mine EXCEPT !.pc = "failed", !.failed_at = "cursor", !.df = out.df,
                           !.conn = "open", !.returned = Raised],
              [mine EXCEPT !.pc = "format_infer", !.df = out.df,
                           !.conn = "open", !.cursor = "open"]}

\* ipeds_*(context, snowflake): year = int(context.partition_key), the download,
\* and load_to_snowflake up to its try block
Begin(t) ==
    /\ Quiescent(t)
    /\ started < MaxLoads
    /\ \E a \in LoadAssets, y \in LoadYears, r \in LoadResponses :
       \E rec \in Prologue(a, y, r) :
         /\ task' = [task EXCEPT ![t] = rec]
         /\ IF rec.pc = "failed"
            THEN UNCHANGED <<snap, batch>>
            ELSE IF \A u \in Tasks : Quiescent(u)
                 THEN /\ snap' = tables
                      /\ batch' = <<[t |-> t, asset |-> a, year |-> y, df |-> rec.df]>>
                 ELSE /\ snap' = snap
                      /\ batch' = Append(batch, [t |-> t, asset |-> a, year |-> y,
                                                 df |-> rec.df])
    /\ started' = started + 1
    /\ UNCHANGED <<scriptVars, dl, tables, formats, stage, tmp>>

\* CREATE FILE FORMAT IF NOT EXISTS ipeds_csv_infer
FormatInfer(t) ==
    /\ task[t].pc = "format_infer"
    /\ \/ /\ Executed(t, Statement("CREATE FILE FORMAT IF NOT EXISTS", "ipeds_csv_infer",
                                       <<>>, <<>>, ""), "format_load")
          /\ formats' = formats \cup {"ipeds_csv_infer"}
       \/ /\ Raise(t, "format_infer")
          /\ UNCHANGED formats
    /\ UNCHANGED <<scriptVars, dl, tables, stage, tmp, started, snap, batch>>

\* CREATE FILE FORMAT IF NOT EXISTS ipeds_csv_load
FormatLoad(t) ==
    /\ task[t].pc = "format_load"
    /\ \/ /\ Executed(t, Statement("CREATE FILE FORMAT IF NOT EXISTS", "ipeds_csv_load",
                                       <<>>, <<>>, ""), "to_csv")
          /\ formats' = formats \cup {"ipeds_csv_load"}
       \/ /\ Raise(t, "format_load")
          /\ UNCHANGED formats
    /\ UNCHANGED <<scriptVars, dl, tables, stage, tmp, started, snap, batch>>

\* df.to_csv(temp_csv, index=False, encoding="utf-8")
ToCsv(t) ==
    /\ task[t].pc = "to_csv"
    /\ \/ /\ Goto(t, "put")
          /\ tmp' = WriteFile(tmp, TempCsv(t), to_csv(task[t].df))
       \/ /\ Raise(t, "to_csv")
          /\ UNCHANGED tmp
    /\ UNCHANGED <<scriptVars, dl, tables, formats, stage, started, snap, batch>>

\* PUT file://{temp_csv} @~/staged AUTO_COMPRESS=FALSE OVERWRITE=TRUE
Put(t) ==
    /\ task[t].pc = "put"
    /\ \/ /\ TempCsv(t) \in DOMAIN tmp
          /\ Executed(t, Statement("PUT", "", <<>>, Staged(t), ""), "create")
          /\ stage' = WriteFile(stage, Staged(t), tmp[TempCsv(t)])
       \/ /\ Raise(t, "put")
          /\ UNCHANGED stage
    /\ UNCHANGED <<scriptVars, dl, tables, formats, tmp, started, snap, batch>>

\* CREATE OR REPLACE TABLE {table_name} USING TEMPLATE (... INFER_SCHEMA ...)
CreateTable(t) ==
    /\ task[t].pc = "create"
    /\ \/ /\ Staged(t) \in DOMAIN stage
          /\ "ipeds_csv_infer" \in formats
          /\ Executed(t, Statement("CREATE OR REPLACE TABLE", "ipeds_csv_infer",
                                    Table(t), Staged(t), ""), "copy")
          /\ tables' = [tables EXCEPT ![Table(t)] = CreateOrReplace(@, stage[Staged(t)])]
       \/ /\ Raise(t, "create")
          /\ UNCHANGED tables
    /\ UNCHANGED <<scriptVars, dl, formats, stage, tmp, started, snap, batch>>

\* COPY INTO {table_name} FROM '@~/staged/{csv_filename}' ... ON_ERROR = 'CONTINUE'
Copy(t) ==
    /\ task[t].pc = "copy"
    /\ \/ /\ tables[Table(t)].exists
          /\ "ipeds_csv_load" \in formats
          /\ Executed(t, Statement("COPY INTO", "ipeds_csv_load",
                                    Table(t), Staged(t), "CONTINUE"), "count")
          /\ tables' = IF Staged(t) \in DOMAIN stage
                       THEN [tables EXCEPT ![Table(t)] = CopyInto(@, stage[Staged(t)])]
                       ELSE tables
       \/ /\ Raise(t, "copy")
          /\ UNCHANGED tables
    /\ UNCHANGED <<scriptVars, dl, formats, stage, tmp, started, snap, batch>>

\* cursor.execute("SELECT COUNT(*) ..."); row_count = cursor.fetchone()[0]
Count(t) ==
    /\ task[t].pc = "count"
    /\ \/ /\ tables[Table(t)].exists
          /\ task' = [task EXCEPT
                        ![t].pc = "remove",
                        ![t].ran = Append(@, Statement("SELECT COUNT(*)", "", Table(t),
                                                       <<>>, "")),
                        ![t].row_count = CountRows(tables[Table(t)])]
       \/ Raise(t, "count")
    /\ UNCHANGED <<scriptVars, dl, tables, formats, stage, tmp, started, snap, batch>>

\* a mutant of Remove: the staged file is removed in place of the COPY
RemoveBeforeCopy(t) ==
    /\ task[t].pc = "copy"
    /\ Executed(t, Statement("REMOVE", "", <<>>, Staged(t), ""), "count")
    /\ stage' = RemoveFile(stage, Staged(t))
    /\ UNCHANGED <<scriptVars, dl, tables, formats, tmp, started, snap, batch>>

\* REMOVE @~/staged/{csv_filename}
Remove(t) ==
    /\ task[t].pc = "remove"
    /\ \/ /\ Executed(t, Statement("REMOVE", "", <<>>, Staged(t), ""), "unlink")
          /\ stage' = RemoveFile(stage, Staged(t))
       \/ /\ Raise(t, "remove")
          /\ UNCHANGED stage
    /\ UNCHANGED <<scriptVars, dl, tables, formats, tmp, started, snap, batch>>

\* temp_csv.unlink(); context.log.info("Successfully loaded ..."); finally
Unlink(t) ==
    /\ task[t].pc = "unlink"
    /\ \/ /\ TempCsv(t) \in DOMAIN tmp
          /\ task' = [task EXCEPT ![t] = Finally([@ EXCEPT !.pc = "done",
                                                           !.logged = task[t].row_count,
                                                           !.returned = ReturnsNone])]
          /\ tmp' = RemoveFile(tmp, TempCsv(t))
       \/ /\ TempCsv(t) \notin DOMAIN tmp
          /\ Raise(t, "unlink")
          /\ UNCHANGED tmp
    /\ UNCHANGED <<scriptVars, dl, tables, formats, stage, started, snap, batch>>

(***************************************************************************)
(* Calls of clean_column_name: on a raw header, and on the same header     *)
(* behind a byte-order mark and whitespace.                                *)
(***************************************************************************)
\* the characters of a raw header
HeaderChars == {" ", FEFF, I_DIAERESIS, "U+00BB", "U+00BF", "u", "N", "_"}

RawHeaders == SeqsUpTo(HeaderChars, MaxHeaderLen)

\* U+FEFF or its latin-1 reading, with whitespace on either side
BomPrefixes ==
    { w1 \o b \o w2 : w1 \in {<<>>, <<" ">>}, w2 \in {<<>>, <<" ">>},
                      b \in {<<FEFF>>, BOM_LATIN1} }

HeaderCall(col, prefix) ==
    [pc |-> "plain", col |-> col, prefix |-> prefix, plain |-> <<>>, prefixed |-> <<>>]

\* clean_column_name(col)
CleanPlain ==
    /\ hdr.pc = "plain"
    /\ hdr' = [hdr EXCEPT !.pc = "prefixed", !.plain = clean_column_name(hdr.col)]
    /\ UNCHANGED <<dl, loadVars, flt, ids, up, rs, nm, main>>

\* clean_column_name(prefix + col)
CleanPrefixed ==
    /\ hdr.pc = "prefixed"
    /\ hdr' = [hdr EXCEPT !.pc = "done",
                          !.prefixed = clean_column_name(hdr.prefix \o hdr.col)]
    /\ UNCHANGED <<dl, loadVars, flt, ids, up, rs, nm, main>>

(***************************************************************************)
(* filter_by_unitids(df, unitids, dataset).                                *)
(***************************************************************************)
\* for col in df.columns: if clean_column_name(col) == name: ... break
\* the position of the first such column, 0 when there is none
FindColumn(df, name) ==
    LET found == { i \in 1..Len(df.cols) : clean_column_name(df.cols[i]) = name }
    IN  IF found = {} THEN 0 ELSE CHOOSE i \in found : \A j \in found : i <= j

\* a mutant of filter_by_unitids: the column is looked up by its raw name
filter_by_unitids_raw_name(df, unitids) ==
    LET unitid_col == ColIndex(df, UNITID)
    IN  IF unitid_col = 0 THEN df
        ELSE [df EXCEPT !.rows = SelectSeq(@, LAMBDA row : row[unitid_col] \in unitids)]

\* if unitid_col is None: return df; return df[df[unitid_col].isin(unitids)]
filter_by_unitids(df, unitids) ==
    LET unitid_col == FindColumn(df, UNITID)
    IN  IF unitid_col = 0 THEN df
        ELSE [df EXCEPT !.rows = SelectSeq(@, LAMBDA row : row[unitid_col] \in unitids)]

\* institution identifiers
Unitids == 1..MaxUnitid

INSTNM == <<"I","N","S","T","N","M">>

\* the headers of the record sets filtered: the identifier first or last,
\* behind a byte-order mark and in lower case, with whitespace, twice, absent
FilterHeaders ==
    { <<UNITID, INSTNM>>,
      <<INSTNM, BOM_LATIN1 \o Lower(UNITID)>>,
      <<<<" ">> \o UNITID \o <<" ">>>>,
      <<UNITID, Lower(UNITID)>>,
      <<INSTNM>> }

\* a record set with that header and one row per identifier of keys: the
\* first identifier column holds the identifier, every other field a value
\* that tells the row's position and is no identifier
FilterDf(cols, keys) ==
    [cols |-> cols,
     rows |-> [i \in 1..Len(keys) |->
                 [j \in 1..Len(cols) |->
                    IF j = FindColumn([cols |-> cols], UNITID) THEN keys[i]
                    ELSE 100 * i + j]],
     encoding |-> "utf-8"]

\* ten rows of which four carry one of three allowed identifiers
TenRows == FilterDf(<<UNITID, INSTNM>>, <<1, 5, 2, 6, 7, 3, 8, 1, 9, 5>>)
ThreeIds == {1, 2, 3}

FilterCalls ==
    { [df |-> FilterDf(h, k), unitids |-> S] :
        h \in FilterHeaders, k \in SeqsUpTo(Unitids, MaxRows), S \in SUBSET Unitids }
    \cup { [df |-> TenRows, unitids |-> ThreeIds] }

FilterCall(c) == [pc |-> "call", df |-> c.df, unitids |-> c.unitids, result |-> NoDf]

\* df = filter_by_unitids(df, texas_cc_unitids, dataset)
FilterByUnitids ==
    /\ flt.pc = "call"
    /\ flt' = [flt EXCEPT !.pc = "done", !.result = filter_by_unitids(flt.df, flt.unitids)]
    /\ UNCHANGED <<dl, loadVars, hdr, ids, up, rs, nm, main>>

(***************************************************************************)
(* get_texas_cc_unitids(years).                                            *)
(***************************************************************************)
\* download_dataset(dataset, year) of the script as one call, for a response
download_dataset(dataset, year, response, clock) ==
    LET table_name == script_table_name(dataset, year)
        req == BuildRequest(table_name, year, clock)
    IN  IF response.status \in TransportFailures
        THEN TransportOutcome("script", table_name)
        ELSE ExtractScript(table_name, response.content, req.encoding, year)

STABBR == <<"S","T","A","B","B","R">>
SECTOR == <<"S","E","C","T","O","R">>

\* for col in df.columns: if clean_name == ...: x_col = col (no break)
\* the position of the last such column, 0 when there is none
LastColumn(df, name) ==
    LET found == { i \in 1..Len(df.cols) : clean_column_name(df.cols[i]) = name }
    IN  IF found = {} THEN 0 ELSE CHOOSE i \in found : \A j \in found : i >= j

\* a mutant of UnitidsOfYear: the state of the institution is not tested
UnitidsOfYearAnyState(df) ==
    LET unitid_col == LastColumn(df, UNITID)
        stabbr_col == LastColumn(df, STABBR)
        sector_col == LastColumn(df, SECTOR)
    IN  IF unitid_col = 0 \/ stabbr_col = 0 \/ sector_col = 0 THEN {}
        ELSE { df.rows[r][unitid_col] :
                 r \in { q \in 1..Len(df.rows) : df.rows[q][sector_col] \in {1, 4} } }

\* one year of the loop, for the record set downloaded: the columns by
\* cleaned name; continue when one is missing; else the identifiers of
\* df[(df[stabbr_col] == 'TX') & (df[sector_col].isin([1, 4]))]
UnitidsOfYear(df) ==
    LET unitid_col == LastColumn(df, UNITID)
        stabbr_col == LastColumn(df, STABBR)
        sector_col == LastColumn(df, SECTOR)
    IN  IF unitid_col = 0 \/ stabbr_col = 0 \/ sector_col = 0 THEN {}
        ELSE { df.rows[r][unitid_col] :
                 r \in { q \in 1..Len(df.rows) : /\ df.rows[q][stabbr_col] = "TX"
                                                 /\ df.rows[q][sector_col] \in {1, 4} } }

\* a row of an institutional-characteristics file
HdStates == {"TX", "CA"}
HdSectors == {1, 2, 4}

\* the rows of such a file with the identifiers 1..n
HdRowSeqs(n) == [1..n -> HdStates \X HdSectors]

HdCsv(cols, rows, bom) == [cols |-> cols, rows |-> rows, bom |-> bom]

\* five institutions of which the first and the fourth qualify
FiveRows == <<<<1, "TX", 4>>, <<2, "TX", 2>>, <<3, "CA", 1>>, <<4, "TX", 1>>,
              <<5, "CA", 4>>>>

\* the files the HD downloads hold: every combination of state and sector
\* for up to MaxHdRows institutions; the five rows; a file in lower case
\* behind a byte-order mark; one without its SECTOR column
HdCsvs ==
    { HdCsv(<<UNITID, STABBR, SECTOR>>,
            [i \in 1..Len(f) |-> <<i, f[i][1], f[i][2]>>], FALSE) :
        f \in UNION { HdRowSeqs(m) : m \in 0..MaxHdRows } }
    \cup { HdCsv(<<UNITID, STABBR, SECTOR>>, FiveRows, FALSE),
           HdCsv(<<Lower(UNITID), <<" ">> \o STABBR, SECTOR>>, FiveRows, TRUE),
           HdCsv(<<UNITID, STABBR>>, <<<<1, "TX">>, <<2, "CA">>>>, FALSE) }

\* what the server answers an HD request: such a file in an archive, an
\* archive without a CSV entry, or a failure
HdResponses ==
    { [status |-> "timeout", content |-> NoContent],
      [status |-> "ok", content |-> [kind |-> "zip", entries |-> <<>>]] }
    \cup { [status |-> "ok",
            content |-> [kind |-> "zip",
                         entries |-> <<[name |-> <<"h","d">> \o DOT_CSV, csv |-> c]>>]] :
           c \in HdCsvs }

\* the years argument: the n years that end with the cutover year
YearsUpToCutover(n) == [i \in 1..n |-> CutoverYear - n + i]

UnitidsCall(years) ==
    [pc |-> "loop", years |-> years, i |-> 1, all_unitids |-> {}, seen |-> <<>>,
     result |-> {}]

\* for year in years: df = download_dataset('HD', year); if df is not None: ...
\* all_unitids.update(unitids)
UnitidsYear ==
    /\ ids.pc = "loop"
    /\ ids.i <= Len(ids.years)
    /\ \E r \in HdResponses :
         LET out == download_dataset(HD, ids.years[ids.i], r, 1)
         IN  ids' = [ids EXCEPT
                       !.i = @ + 1,
                       !.seen = Append(@, out),
                       !.all_unitids = IF out.status = "ok"
                                       THEN @ \cup UnitidsOfYear(out.df) ELSE @]
    /\ UNCHANGED <<dl, loadVars, hdr, flt, up, rs, nm, main>>

\* return all_unitids
UnitidsReturn ==
    /\ ids.pc = "loop"
    /\ ids.i > Len(ids.years)
    /\ ids' = [ids EXCEPT !.pc = "done", !.result = ids.all_unitids]
    /\ UNCHANGED <<dl, loadVars, hdr, flt, up, rs, nm, main>>

(***************************************************************************)
(* upload_to_snowflake.py: one run over the CSV files of the seeds         *)
(* directory.                                                              *)
(***************************************************************************)
\* the characters of a file name, in code point order
CodePoints == <<".">> \o Digits \o UpperAlpha \o <<"_">> \o LowerAlpha

Ord(c) == CHOOSE i \in 1..Len(CodePoints) : CodePoints[i] = c

RECURSIVE PathLess(_, _)
\* a < b for two file names of one directory
PathLess(a, b) ==
    IF b = <<>> THEN FALSE
    ELSE IF a = <<>> THEN TRUE
    ELSE IF Head(a) # Head(b) THEN Ord(Head(a)) < Ord(Head(b))
    ELSE PathLess(Tail(a), Tail(b))

RECURSIVE SortedPaths(_)
\* sorted(paths)
SortedPaths(S) ==
    IF S = {} THEN <<>>
    ELSE LET least == CHOOSE a \in S : \A b \in S \ {a} : PathLess(a, b)
         IN  <<least>> \o SortedPaths(S \ {least})

\* csv_files = sorted(seeds_dir.glob('*.csv')), for the directory's files by name
Glob(seeds) == SortedPaths({ n \in DOMAIN seeds : EndsWith(n, DOT_CSV) })

\* csv_file.stem.upper()
StemUpper(name) == Upper(SubSeq(name, 1, Len(name) - Len(DOT_CSV)))

\* the names a seeds directory may hold: files the download script wrote
\* for two datasets and two years, and one that is no CSV file
SeedNames ==
    { Lower(d) \o <<"_">> \o Str(y) \o DOT_CSV :
        d \in {HD, C_A}, y \in {CutoverYear - 1, CutoverYear} }
    \cup { <<"s",".","y","m","l">> }

UploadTables == { StemUpper(n) : n \in { m \in SeedNames : EndsWith(m, DOT_CSV) } }

\* the seeds directories: up to MaxSeeds files, each a CSV of LoadCsvs
SeedDirs ==
    UNION { [N -> LoadCsvs] : N \in { M \in SUBSET SeedNames : Cardinality(M) <= MaxSeeds } }

\* a table an earlier run loaded
OldTable == [exists |-> TRUE, cols |-> <<UNITID>>, rows |-> SetToBag({<<MaxRowKey + 1>>})]

\* ran: the statements executed; out: what the loop printed for each file
UploadRun(seeds, before) ==
    [pc |-> "connect", seeds |-> seeds, csv_files |-> <<>>, i |-> 0, count |-> -1,
     conn |-> "none", ran |-> <<>>, out |-> <<>>, before |-> before]

uploadFrame == <<dl, task, tmp, started, snap, batch, hdr, flt, ids, rs, nm, main>>

\* the file and the table of the loop's current iteration
CsvFile == up.csv_files[up.i]
UpTable == StemUpper(CsvFile)

\* a statement of the loop body returned
UpExecuted(statement, pc) ==
    up' = [up EXCEPT !.pc = pc, !.ran = Append(@, statement)]

\* the position after iteration i of the loop
AfterUnit(i, csv_files) == IF i < Len(csv_files) THEN "put" ELSE "close"

\* except Exception as e: print(f'  Error: {e}'); on to the next file
UpExcept(step) ==
    up' = [up EXCEPT !.pc = AfterUnit(up.i, up.csv_files),
                     !.i = IF up.i < Len(up.csv_files) THEN @ + 1 ELSE @,
                     !.count = -1,
                     !.out = Append(@, [file |-> CsvFile, status |-> "error",
                                        at |-> step, count |-> -1])]

\* conn = snowflake.connector.connect(...); cursor = conn.cursor()
UpConnect ==
    /\ up.pc = "connect"
    /\ \/ up' = [up EXCEPT !.pc = "format_infer", !.conn = "open"]
       \/ up' = [up EXCEPT !.pc = "crashed"]
    /\ UNCHANGED <<uploadFrame, tables, formats, stage>>

\* CREATE OR REPLACE FILE FORMAT ipeds_csv_infer
UpFormatInfer ==
    /\ up.pc = "format_infer"
    /\ \/ /\ UpExecuted(Statement("CREATE OR REPLACE FILE FORMAT", "ipeds_csv_infer",
                                  <<>>, <<>>, ""), "format_load")
          /\ formats' = formats \cup {"ipeds_csv_infer"}
       \/ /\ up' = [up EXCEPT !.pc = "crashed"]
          /\ UNCHANGED formats
    /\ UNCHANGED <<uploadFrame, tables, stage>>

\* CREATE OR REPLACE FILE FORMAT ipeds_csv_load; csv_files = sorted(glob)
UpFormatLoad ==
    /\ up.pc = "format_load"
    /\ \/ /\ up' = [up EXCEPT
                      !.pc = IF Glob(up.seeds) = <<>> THEN "close" ELSE "put",
                      !.ran = Append(@, Statement("CREATE OR REPLACE FILE FORMAT",
                                                  "ipeds_csv_load", <<>>, <<>>, "")),
                      !.csv_files = Glob(up.seeds),
                      !.i = IF Glob(up.seeds) = <<>> THEN 0 ELSE 1]
          /\ formats' = formats \cup {"ipeds_csv_load"}
       \/ /\ up' = [up EXCEPT !.pc = "crashed"]
          /\ UNCHANGED formats
    /\ UNCHANGED <<uploadFrame, tables, stage>>

\* PUT file://{csv_file} @~/staged AUTO_COMPRESS=FALSE OVERWRITE=TRUE
UpPut ==
    /\ up.pc = "put"
    /\ \/ /\ UpExecuted(Statement("PUT", "", <<>>, CsvFile, ""), "create")
          /\ stage' = WriteFile(stage, CsvFile, to_csv(up.seeds[CsvFile]))
       \/ /\ UpExcept("put")
          /\ UNCHANGED stage
    /\ UNCHANGED <<uploadFrame, tables, formats>>

\* CREATE OR REPLACE TABLE {table_name} USING TEMPLATE (... INFER_SCHEMA ...)
UpCreateTable ==
    /\ up.pc = "create"
    /\ \/ /\ CsvFile \in DOMAIN stage
          /\ "ipeds_csv_infer" \in formats
          /\ UpExecuted(Statement("CREATE OR REPLACE TABLE", "ipeds_csv_infer",
                                  UpTable, CsvFile, ""), "copy")
          /\ tables' = [tables EXCEPT ![UpTable] = CreateOrReplace(@, stage[CsvFile])]
       \/ /\ UpExcept("create")
          /\ UNCHANGED tables
    /\ UNCHANGED <<uploadFrame, formats, stage>>

\* COPY INTO {table_name} FROM '@~/staged/{csv_file.name}' ... ON_ERROR = 'CONTINUE'
UpCopy ==
    /\ up.pc = "copy"
    /\ \/ /\ tables[UpTable].exists
          /\ "ipeds_csv_load" \in formats
          /\ UpExecuted(Statement("COPY INTO", "ipeds_csv_load", UpTable, CsvFile,
                                  "CONTINUE"), "count")
          /\ tables' = IF CsvFile \in DOMAIN stage
                       THEN [tables EXCEPT ![UpTable] = CopyInto(@, stage[CsvFile])]
                       ELSE tables
       \/ /\ UpExcept("copy")
          /\ UNCHANGED tables
    /\ UNCHANGED <<uploadFrame, formats, stage>>

\* cursor.execute("SELECT COUNT(*) ..."); count = cursor.fetchone()[0]
UpCount ==
    /\ up.pc = "count"
    /\ \/ /\ tables[UpTable].exists
          /\ up' = [up EXCEPT
                      !.pc = "remove",
                      !.ran = Append(@, Statement("SELECT COUNT(*)", "", UpTable, <<>>, "")),
                      !.count = CountRows(tables[UpTable])]
       \/ UpExcept("count")
    /\ UNCHANGED <<uploadFrame, tables, formats, stage>>

\* REMOVE @~/staged/{csv_file.name}; print(f'  Loaded {count:,} rows')
UpRemove ==
    /\ up.pc = "remove"
    /\ \/ /\ up' = [up EXCEPT
                      !.pc = AfterUnit(up.i, up.csv_files),
                      !.i = IF up.i < Len(up.csv_files) THEN @ + 1 ELSE @,
                      !.count = -1,
                      !.ran = Append(@, Statement("REMOVE", "", <<>>, CsvFile, "")),
                      !.out = Append(@, [file |-> CsvFile, status |-> "loaded",
                                         at |-> "", count |-> up.count])]
          /\ stage' = RemoveFile(stage, CsvFile)
       \/ /\ UpExcept("remove")
          /\ UNCHANGED stage
    /\ UNCHANGED <<uploadFrame, tables, formats>>

\* print('Done!'); cursor.close(); conn.close()
UpClose ==
    /\ up.pc = "close"
    /\ up' = [up EXCEPT !.pc = "done", !.conn = "closed"]
    /\ UNCHANGED <<uploadFrame, tables, formats, stage>>

(***************************************************************************)
(* download_ipeds.py: one run of main().                                   *)
(***************************************************************************)
RECURSIVE UnitidsUpTo(_, _, _)
\* all_unitids after the first n years of the loop of get_texas_cc_unitids,
\* for the responses its HD downloads receive
UnitidsUpTo(years, responses, n) ==
    IF n = 0 THEN {}
    ELSE LET out == download_dataset(HD, years[n], responses[n], 1)
         IN  UnitidsUpTo(years, responses, n - 1)
             \cup (IF out.status = "ok" THEN UnitidsOfYear(out.df) ELSE {})

\* get_texas_cc_unitids(years) as one call
get_texas_cc_unitids(years, responses) == UnitidsUpTo(years, responses, Len(years))

\* the HD branch of main's filter: by state and sector, when both columns
\* are found
filter_hd(df) ==
    LET stabbr_col == LastColumn(df, STABBR)
        sector_col == LastColumn(df, SECTOR)
    IN  IF stabbr_col = 0 \/ sector_col = 0 THEN df
        ELSE [df EXCEPT !.rows = SelectSeq(@, LAMBDA row : /\ row[stabbr_col] = "TX"
                                                           /\ row[sector_col] \in {1, 4})]

\* if args.filter_texas and texas_cc_unitids: an empty set, like None, is false
FilterApplies(filter_texas, texas_cc_unitids) ==
    filter_texas /\ texas_cc_unitids # {}

\* the record set main saves for a downloaded one
Filtered(df, dataset, filter_texas, texas_cc_unitids) ==
    IF FilterApplies(filter_texas, texas_cc_unitids)
    THEN IF dataset = HD THEN filter_hd(df)
         ELSE filter_by_unitids(df, texas_cc_unitids)
    ELSE df

\* output_file = output_dir / f'{dataset.lower()}_{year}.csv'
OutputFile(dataset, year) == Lower(dataset) \o <<"_">> \o Str(year) \o DOT_CSV

\* list(DATASETS.keys())
DefaultDatasets == <<HD, C_A, EFFY, GR, SFA>>

\* the --datasets arguments: the choices among the first MaxDatasets codes
DatasetArgs ==
    { [k \in 1..Cardinality(I) |-> DefaultDatasets[SortedSeq(I)[k]]] :
        I \in (SUBSET (1..MaxDatasets)) \ {{}} }

\* what the server answers the request of a dataset other than HD: a file
\* with identifiers, one without an identifier column, or a failure
DataResponses ==
    { [status |-> "timeout", content |-> NoContent] }
    \cup { [status |-> "ok",
            content |-> [kind |-> "zip",
                         entries |-> <<[name |-> <<"d">> \o DOT_CSV, csv |-> c]>>]] :
           c \in { CsvOf(K) : K \in (SUBSET Unitids) \ {{}} }
                 \cup { [cols |-> <<INSTNM>>, rows |-> <<<<1>>>>, bom |-> FALSE] } }

UnitResponses(dataset) == IF dataset = HD THEN HdResponses ELSE DataResponses

\* texas_cc_unitids = None is the empty set here: both are false in the
\* only place that reads it
MainRun(years, datasets, filter_texas) ==
    [pc |-> "unitids", years |-> years, datasets |-> datasets,
     filter_texas |-> filter_texas, texas_cc_unitids |-> {}, d |-> 1, y |-> 1,
     files |-> NoFiles]

mainFrame == <<dl, loadVars, hdr, flt, ids, up, rs, nm>>

\* if args.filter_texas: texas_cc_unitids = get_texas_cc_unitids(years)
MainUnitids ==
    /\ main.pc = "unitids"
    /\ IF main.filter_texas
       THEN \E responses \in [1..Len(main.years) -> HdResponses] :
              main' = [main EXCEPT
                         !.pc = "unit",
                         !.texas_cc_unitids = get_texas_cc_unitids(main.years, responses)]
       ELSE main' = [main EXCEPT !.pc = "unit"]
    /\ UNCHANGED mainFrame

\* one pass of "for dataset in args.datasets: for year in years:":
\* download, filter, save
MainUnit ==
    /\ main.pc = "unit"
    /\ LET dataset == main.datasets[main.d]
           year == main.years[main.y]
       IN  \E r \in UnitResponses(dataset) :
             LET out == download_dataset(dataset, year, r, 1)
                 df == Filtered(out.df, dataset, main.filter_texas, main.texas_cc_unitids)
                 last_year == main.y = Len(main.years)
                 last_unit == last_year /\ main.d = Len(main.datasets)
             IN  main' = [main EXCEPT
                            !.pc = IF last_unit THEN "done" ELSE "unit",
                            !.y = IF last_unit THEN @ ELSE IF last_year THEN 1 ELSE @ + 1,
                            !.d = IF last_year /\ ~last_unit THEN @ + 1 ELSE @,
                            !.files = IF out.status = "ok"
                                      THEN WriteFile(@, OutputFile(dataset, year),
                                                     [dataset |-> dataset, year |-> year,
                                                      csv |-> to_csv(df)])
                                      ELSE @]
    /\ UNCHANGED mainFrame

(***************************************************************************)
(* The two resolvers: table name and URL of one dataset and year, as the   *)
(* script and as the pipeline compute them.                                *)
(***************************************************************************)
BASE_URL == "https://nces.ed.gov/ipeds/datacenter/data"
SCRIPT_GENERATOR_URL == "https://nces.ed.gov/ipeds/data-generator"

\* the url download_dataset requests, by era
script_url(table_name, year, clock) ==
    IF year >= 2023
    THEN LET timestamp == Str(clock * 1000)
         IN  [endpoint |-> SCRIPT_GENERATOR_URL, file |-> <<>>,
              query |-> << <<"year", Str(year)>>,
                           <<"tableName", table_name>>,
                           <<"HasRV", <<"0">> >>,
                           <<"type", <<"c","s","v">> >>,
                           <<"t", timestamp>> >>]
    ELSE [endpoint |-> BASE_URL, file |-> table_name \o DOT_ZIP, query |-> <<>>]

NotResolved == [table_name |-> <<>>, url |-> "none"]

resolveFrame == <<dl, loadVars, hdr, flt, ids, up, nm, main>>

\* download_dataset up to its request
ResolveScript ==
    /\ rs.pc = "resolve"
    /\ rs.script = NotResolved
    /\ \E clock \in 0..MaxClock :
         LET table_name == script_table_name(rs.code, rs.year)
         IN  rs' = [rs EXCEPT !.script = [table_name |-> table_name,
                                          url |-> script_url(table_name, rs.year, clock)]]
    /\ UNCHANGED resolveFrame

\* download_ipeds_file up to its request
ResolvePipeline ==
    /\ rs.pc = "resolve"
    /\ rs.pipeline = NotResolved
    /\ \E clock \in 0..MaxClock :
         LET table_name == get_table_name(rs.code, rs.year)
         IN  rs' = [rs EXCEPT !.pipeline =
                       [table_name |-> table_name,
                        url |-> BuildRequest(table_name, rs.year, clock).url]]
    /\ UNCHANGED resolveFrame

(***************************************************************************)
(* The file names of two loads, each of one asset and one partition.       *)
(***************************************************************************)
TMP_DIR == <<"/","t","m","p","/">>

\* temp_csv = Path(f"/tmp/{csv_filename}")
TempPath(csv_filename) == TMP_DIR \o csv_filename

NotNamed == [csv_filename |-> <<>>, temp_csv |-> <<>>]

\* the units of the job: an asset and one of its partitions
LoadUnits ==
    { [asset |-> AssetKeys[i], year |-> y] :
        i \in DOMAIN AssetKeys, y \in ipeds_years_partitions }

namesFrame == <<dl, loadVars, hdr, flt, ids, up, rs, main>>

\* load_to_snowflake(df, table, snowflake, context, year) up to its to_csv
NameLoad(i) ==
    /\ nm.pc = "name"
    /\ nm.names[i] = NotNamed
    /\ LET table_name == AssetTable(nm.units[i].asset)
           csv_filename == CsvFilename(table_name, nm.units[i].year)
       IN  nm' = [nm EXCEPT !.names[i] = [csv_filename |-> csv_filename,
                                          temp_csv |-> TempPath(csv_filename)]]
    /\ UNCHANGED namesFrame

(***************************************************************************)
(* Specifications.                                                         *)
(***************************************************************************)
\* no call of the script's functions and no run of the upload script
NoCall == [pc |-> "none"]

ScriptIdle ==
    /\ hdr = NoCall
    /\ flt = NoCall
    /\ ids = NoCall
    /\ up = NoCall
    /\ rs = NoCall
    /\ nm = NoCall
    /\ main = NoCall

LoadInit ==
    /\ task = [t \in Tasks |-> IdleTask]
    /\ tables = [n \in TableNames |-> NoTable]
    /\ formats = {}
    /\ stage = NoFiles
    /\ tmp = NoFiles
    /\ started = 0
    /\ snap = [n \in TableNames |-> NoTable]
    /\ batch = <<>>

\* asset tasks run by the scheduler, each load one call of load_to_snowflake
Init ==
    /\ dl = DlStart([impl |-> "pipeline", code |-> HD, year |-> CutoverYear])
    /\ LoadInit
    /\ ScriptIdle

Next ==
    \E t \in Tasks :
        \/ Begin(t)
        \/ FormatInfer(t)
        \/ FormatLoad(t)
        \/ ToCsv(t)
        \/ Put(t)
        \/ CreateTable(t)
        \/ Copy(t)
        \/ Count(t)
        \/ Remove(t)
        \/ Unlink(t)

Spec == Init /\ [][Next]_vars

\* one download unit, for every implementation, code and year
DownloadInit ==
    /\ dl \in { DlStart(u) : u \in DownloadUnits }
    /\ LoadInit
    /\ ScriptIdle

DownloadNext == DlResolve \/ DlGet \/ DlTransportError \/ DlExtract

SpecDownload == DownloadInit /\ [][DownloadNext]_vars

\* one download unit whose archive holds a source file of SourceHeaders
NormalizeNext == DlResolve \/ DlGetHeaders \/ DlTransportError \/ DlExtract

SpecNormalize == DownloadInit /\ [][NormalizeNext]_vars

\* clean_column_name on every raw header, alone and behind every prefix
HeaderInit ==
    /\ dl = DlStart([impl |-> "script", code |-> HD, year |-> CutoverYear])
    /\ LoadInit
    /\ hdr \in { HeaderCall(col, prefix) : col \in RawHeaders, prefix \in BomPrefixes }
    /\ flt = NoCall
    /\ ids = NoCall
    /\ up = NoCall
    /\ rs = NoCall
    /\ nm = NoCall
    /\ main = NoCall

HeaderNext == CleanPlain \/ CleanPrefixed

SpecHeader == HeaderInit /\ [][HeaderNext]_vars

\* filter_by_unitids on every record set and allow-set of FilterCalls
FilterInit ==
    /\ dl = DlStart([impl |-> "script", code |-> HD, year |-> CutoverYear])
    /\ LoadInit
    /\ hdr = NoCall
    /\ flt \in { FilterCall(c) : c \in FilterCalls }
    /\ ids = NoCall
    /\ up = NoCall
    /\ rs = NoCall
    /\ nm = NoCall
    /\ main = NoCall

FilterNext == FilterByUnitids

SpecFilter == FilterInit /\ [][FilterNext]_vars

\* get_texas_cc_unitids for one to MaxYears years
UnitidsInit ==
    /\ dl = DlStart([impl |-> "script", code |-> HD, year |-> CutoverYear])
    /\ LoadInit
    /\ hdr = NoCall
    /\ flt = NoCall
    /\ ids \in { UnitidsCall(YearsUpToCutover(n)) : n \in 1..MaxYears }
    /\ up = NoCall
    /\ rs = NoCall
    /\ nm = NoCall
    /\ main = NoCall

UnitidsNext == UnitidsYear \/ UnitidsReturn

SpecUnitids == UnitidsInit /\ [][UnitidsNext]_vars

\* one run of the upload script, for every seeds directory, with the
\* tables of the files either absent or loaded by an earlier run
UploadInit ==
    /\ dl = DlStart([impl |-> "script", code |-> HD, year |-> CutoverYear])
    /\ task = [t \in Tasks |-> IdleTask]
    /\ tables \in { [n \in UploadTables |-> NoTable], [n \in UploadTables |-> OldTable] }
    /\ formats = {}
    /\ stage = NoFiles
    /\ tmp = NoFiles
    /\ started = 0
    /\ snap = [n \in TableNames |-> NoTable]
    /\ batch = <<>>
    /\ hdr = NoCall
    /\ flt = NoCall
    /\ ids = NoCall
    /\ \E seeds \in SeedDirs : up = UploadRun(seeds, tables)
    /\ rs = NoCall
    /\ nm = NoCall
    /\ main = NoCall

UploadNext ==
    \/ UpConnect
    \/ UpFormatInfer
    \/ UpFormatLoad
    \/ UpPut
    \/ UpCreateTable
    \/ UpCopy
    \/ UpCount
    \/ UpRemove
    \/ UpClose

SpecUpload == UploadInit /\ [][UploadNext]_vars

\* one run of the download script for one to MaxYears years, the chosen
\* datasets, with and without --filter-texas
MainInit ==
    /\ dl = DlStart([impl |-> "script", code |-> HD, year |-> CutoverYear])
    /\ LoadInit
    /\ hdr = NoCall
    /\ flt = NoCall
    /\ ids = NoCall
    /\ up = NoCall
    /\ rs = NoCall
    /\ nm = NoCall
    /\ main \in { MainRun(YearsUpToCutover(n), ds, f) :
                    n \in 1..MaxYears, ds \in DatasetArgs, f \in BOOLEAN }

MainNext == MainUnitids \/ MainUnit

SpecMain == MainInit /\ [][MainNext]_vars

\* one dataset code of the script and one year, resolved by both
ResolversInit ==
    /\ dl = DlStart([impl |-> "script", code |-> HD, year |-> CutoverYear])
    /\ LoadInit
    /\ hdr = NoCall
    /\ flt = NoCall
    /\ ids = NoCall
    /\ up = NoCall
    /\ nm = NoCall
    /\ main = NoCall
    /\ rs \in { [pc |-> "resolve", code |-> c, year |-> y,
                 script |-> NotResolved, pipeline |-> NotResolved] :
                c \in DATASETS, y \in DownloadYears }

ResolversNext == ResolveScript \/ ResolvePipeline

SpecResolvers == ResolversInit /\ [][ResolversNext]_vars

\* two loads, of any two units
NamesInit ==
    /\ dl = DlStart([impl |-> "script", code |-> HD, year |-> CutoverYear])
    /\ LoadInit
    /\ hdr = NoCall
    /\ flt = NoCall
    /\ ids = NoCall
    /\ up = NoCall
    /\ rs = NoCall
    /\ main = NoCall
    /\ nm \in { [pc |-> "name", units |-> <<u, v>>, names |-> <<NotNamed, NotNamed>>] :
                u \in LoadUnits, v \in LoadUnits }

NamesNext == \E i \in 1..2 : NameLoad(i)

SpecNames == NamesInit /\ [][NamesNext]_vars

(***************************************************************************)
(* Vocabulary of the properties.                                           *)
(***************************************************************************)
\* the outcomes of Prologue that end the asset before the try block
PrologueFailures == {"RequestException", "BadZipFile", "ValueError", "connect", "cursor"}

\* task t's record is that of a call of load_to_snowflake that entered its try block
EnteredTry(t) == task[t].pc # "idle" /\ task[t].failed_at \notin PrologueFailures

\* task t's call has returned or raised
Exited(t) == task[t].pc \in {"done", "failed"}

\* task t's load ran with no other load running at any time during it
Solo(t) == /\ EnteredTry(t)
           /\ Len(batch) = 1
           /\ batch[1].t = t
           /\ \A u \in Tasks \ {t} : Quiescent(u)

\* the rows of a bag of table rows whose YEAR field is not year
OtherYears(table, year) ==
    LET at == ColIndex(table, YEAR)
        keep == { r \in DOMAIN table.rows : at = 0 \/ r[at] # year }
    IN  [r \in keep |-> table.rows[r]]

\* the warehouse tables after one load that runs alone and succeeds
SerialLoad(tb, load) ==
    LET file == to_csv(load.df)
    IN  [tb EXCEPT ![AssetTable(load.asset)] = CopyInto(CreateOrReplace(@, file), file)]

(***************************************************************************)
(* C1.  After load_to_snowflake completes successfully for table T and     *)
(* partition year P, T holds exactly the rows of the just-loaded file (the *)
(* ones COPY accepts) for P, and every row T held for any other year       *)
(* before the load is still there.                                         *)
(***************************************************************************)
C1_PartitionReplace ==
    \A t \in Tasks :
        (Solo(t) /\ task[t].pc = "done")
        => tables[Table(t)].rows
             = SeqToBag(Accepted(to_csv(task[t].df)))
               (+) OtherYears(snap[Table(t)], task[t].year)

(***************************************************************************)
(* C2.  On every exit of a load, success or failure at any step, the       *)
(* staged file under @~/staged has been removed and the local temporary    *)
(* CSV no longer exists.                                                   *)
(***************************************************************************)
C2_CleanupOnEveryExit ==
    \A t \in Tasks :
        (Solo(t) /\ Exited(t))
        => /\ Staged(t) \notin DOMAIN stage
           /\ TempCsv(t) \notin DOMAIN tmp

(***************************************************************************)
(* C3.  Every connection load_to_snowflake obtained is closed, with its    *)
(* cursor, on every exit path of the call, also when a step after          *)
(* get_connection fails (cursor creation included).                        *)
(***************************************************************************)
C3_ConnectionClosedOnExit ==
    \A t \in Tasks :
        (Exited(t) /\ task[t].conn # "none")
        => /\ task[t].conn = "closed"
           /\ task[t].cursor \in {"none", "closed"}

(***************************************************************************)
(* C4.  Two tasks that load different partitions concurrently (different   *)
(* years of one dataset, or different datasets) and both succeed leave the *)
(* tables in a state that one of the two serial orders of the loads also   *)
(* produces.                                                               *)
(***************************************************************************)
C4_DifferentPartitionsSerializable ==
    (/\ Len(batch) = 2
     /\ batch[1].t # batch[2].t
     /\ <<batch[1].asset, batch[1].year>> # <<batch[2].asset, batch[2].year>>
     /\ \A t \in Tasks : t \in {batch[1].t, batch[2].t} => task[t].pc = "done")
    => \/ tables = SerialLoad(SerialLoad(snap, batch[1]), batch[2])
       \/ tables = SerialLoad(SerialLoad(snap, batch[2]), batch[1])

\* a load that runs alone and succeeds leaves what SerialLoad computes
SoloLoadIsSerialLoad ==
    \A t \in Tasks :
        (Solo(t) /\ task[t].pc = "done") => tables = SerialLoad(snap, batch[1])

\* two concurrent loads of different datasets that both succeed are serializable
DifferentDatasetsSerializable ==
    (/\ Len(batch) = 2
     /\ batch[1].t # batch[2].t
     /\ batch[1].asset # batch[2].asset
     /\ \A t \in Tasks : t \in {batch[1].t, batch[2].t} => task[t].pc = "done")
    => \/ tables = SerialLoad(SerialLoad(snap, batch[1]), batch[2])
       \/ tables = SerialLoad(SerialLoad(snap, batch[2]), batch[1])

(***************************************************************************)
(* Vocabulary of the download properties, stated apart from the operators  *)
(* that model the code.                                                    *)
(***************************************************************************)
\* the two decimal digits n ends in
TwoDigits(n) == <<Digits[((n \div 10) % 10) + 1], Digits[(n % 10) + 1]>>

\* name ends in .csv, in any letter case
IsCsvName(name) ==
    /\ Len(name) >= 4
    /\ name[Len(name) - 3] = "."
    /\ name[Len(name) - 2] \in {"c", "C"}
    /\ name[Len(name) - 1] \in {"s", "S"}
    /\ name[Len(name)] \in {"v", "V"}

\* the positions of the entries of an archive that match
Matching(entries) == { i \in 1..Len(entries) : IsCsvName(entries[i].name) }

FirstMatching(entries) ==
    CHOOSE i \in Matching(entries) : \A j \in Matching(entries) : i <= j

DlDone == dl.pc = "done"
DlFetched == DlDone /\ dl.response.status = "ok"
DlTransportFailed == DlDone /\ dl.response.status \in TransportFailures

(***************************************************************************)
(* C5.  For every dataset code and year the fetcher requests               *)
(* {base}/{resolvedName}.zip, decoded as latin-1, when year < 2023, and    *)
(* the generator endpoint with year, tableName, HasRV=0, type=csv and the  *)
(* millisecond timestamp, decoded as utf-8, when year >= 2023.             *)
(***************************************************************************)
C5_EraDispatch ==
    dl.pc # "resolve"
    => IF dl.year < 2023
       THEN /\ dl.url = [endpoint |-> "https://nces.ed.gov/ipeds/datacenter/data",
                         file |-> dl.table_name \o <<".","z","i","p">>,
                         query |-> <<>>]
            /\ dl.encoding = "latin-1"
       ELSE /\ dl.url.endpoint = "https://nces.ed.gov/ipeds/data-generator"
            /\ dl.url.file = <<>>
            /\ dl.url.query = << <<"year", Str(dl.year)>>,
                                 <<"tableName", dl.table_name>>,
                                 <<"HasRV", <<"0">> >>,
                                 <<"type", <<"c","s","v">> >>,
                                 <<"t", Str(dl.clock) \o <<"0","0","0">> >> >>
            /\ dl.encoding = "utf-8"

\* a download for year 2023 exactly has built the generator request
C5_Witness ==
    /\ dl.pc = "get"
    /\ dl.year = 2023
    /\ dl.url.endpoint = GENERATOR_URL
    /\ dl.encoding = "utf-8"

(***************************************************************************)
(* C6.  A fetched payload that is not an archive (plain delimited text) is *)
(* decoded directly as UTF-8 and yields the record set; it does not fail   *)
(* with an invalid-archive error.                                          *)
(***************************************************************************)
C6_PlainTextDecoded ==
    (DlFetched /\ dl.year >= 2023 /\ dl.response.content.kind = "text")
    => /\ dl.outcome.status = "ok"
       /\ dl.outcome.df
            = SetYear(read_csv(dl.response.content.entries[1].csv, "utf-8"), dl.year)

(***************************************************************************)
(* C7.  get_table_name(code, year): C_A gives C{year}_A, SFA gives SFA and *)
(* the last two digits of year-1 and of year, EF_D gives EF{year}D, every  *)
(* other code gives {code}{year}; it yields a name for every input.        *)
(***************************************************************************)
C7_TableNameRules ==
    (dl.impl = "pipeline" /\ dl.pc # "resolve")
    => /\ dl.code = C_A => dl.table_name = <<"C">> \o Str(dl.year) \o <<"_","A">>
       /\ dl.code = SFA
            => dl.table_name = <<"S","F","A">> \o TwoDigits(dl.year - 1)
                                 \o TwoDigits(dl.year)
       /\ dl.code = EF_D => dl.table_name = <<"E","F">> \o Str(dl.year) \o <<"D">>
       /\ dl.code \notin {C_A, SFA, EF_D} => dl.table_name = dl.code \o Str(dl.year)
       /\ (dl.code = C_A /\ dl.year = 2023)
            => dl.table_name = <<"C","2","0","2","3","_","A">>
       /\ (dl.code = SFA /\ dl.year = 2024)
            => dl.table_name = <<"S","F","A","2","3","2","4">>
       /\ (dl.code = SFA /\ dl.year = 2019)
            => dl.table_name = <<"S","F","A","1","8","1","9">>

\* the pipeline has resolved SFA for 2024
C7_Witness ==
    /\ dl.impl = "pipeline"
    /\ dl.pc = "get"
    /\ dl.code = SFA
    /\ dl.year = 2024
    /\ dl.table_name = <<"S","F","A","2","3","2","4">>

(***************************************************************************)
(* C8.  A payload that is no readable archive and a readable archive with  *)
(* no .csv entry end the unit with two different outcomes that the caller  *)
(* can tell apart, and neither returns a record set.                       *)
(***************************************************************************)
C8_ArchiveErrorsDistinct ==
    (DlFetched /\ dl.response.content.kind # "zip")
    => /\ dl.outcome.status # "ok"
       /\ dl.outcome.df = NoDf
       /\ \A c \in Contents :
            (c.kind = "zip" /\ Matching(c.entries) = {})
            => LET other == Extract(dl.impl, dl.table_name, c, dl.encoding, dl.year)
               IN  /\ other.status # "ok"
                   /\ other.df = NoDf
                   /\ other.status # dl.outcome.status

C10_TransportFailureSurfaced ==
    DlTransportFailed
    => /\ dl.requests = 1
       /\ dl.outcome.df = NoDf
       /\ dl.outcome.status = "RequestException"
       /\ dl.outcome.message.tag = dl.table_name

\* C10 as the code has it: one request, no record set; download_ipeds_file logs
\* the failure with the table name and re-raises the RequestException, and the
\* script's download_dataset returns None
C10_TransportFailureOnce ==
    /\ DlDone => dl.requests = 1
    /\ DlTransportFailed
       => /\ dl.outcome.df = NoDf
          /\ dl.impl = "pipeline"
               => /\ dl.outcome.status = "RequestException"
                  /\ dl.outcome.message = [text |-> "Failed to download",
                                           tag |-> dl.table_name]
          /\ dl.impl = "script" => dl.outcome.status = "None"

\* a download of the pipeline has ended on a timeout
C10_Witness ==
    /\ DlTransportFailed
    /\ dl.impl = "pipeline"
    /\ dl.response.status = "timeout"
    /\ dl.requests = 1

\* the source file the download read
DlSource == dl.response.content.entries[FirstMatching(dl.response.content.entries)].csv
DlRead == DlDone /\ dl.outcome.status = "ok"

\* name is upper case and holds no space and no hyphen
IsNormalizedName(name) ==
    /\ name = Upper(name)
    /\ \A i \in 1..Len(name) : name[i] \notin {" ", "-"}

(***************************************************************************)
(* C11.  In the record set a download returns, which is the one handed to  *)
(* the loader, every column name is upper case and has its spaces and      *)
(* hyphens replaced by underscores.                                        *)
(***************************************************************************)
C11_ColumnNamesNormalized ==
    DlRead => \A i \in 1..Len(dl.outcome.df.cols) : IsNormalizedName(dl.outcome.df.cols[i])

\* the columns of df whose name the script's lookup reads as YEAR
YearColumns(df) == { i \in 1..Len(df.cols) : clean_column_name(df.cols[i]) = YEAR }

(***************************************************************************)
(* C12 as stated.  After a successful download for year Y the record set   *)
(* has exactly one column whose normalized name is YEAR, holding Y in      *)
(* every row, also when the source file had a year column in any letter    *)
(* case.                                                                   *)
(***************************************************************************)
C12_OneYearColumnAnyCase ==
    DlRead => LET df == dl.outcome.df
              IN  /\ Cardinality(YearColumns(df)) = 1
                  /\ \A r \in 1..Len(df.rows) : \A i \in YearColumns(df) :
                        df.rows[r][i] = dl.year

(***************************************************************************)
(* C12.  After a successful download for year Y the record set has exactly *)
(* one column named exactly YEAR, holding Y in every row; a source column  *)
(* named exactly YEAR is overwritten in place, and every other source      *)
(* column, one named year in another letter case included, is passed on    *)
(* with its values.                                                        *)
(***************************************************************************)
C12_OneYearColumnExact ==
    DlRead =>
      LET df == dl.outcome.df
          src == DlSource
          named == { i \in 1..Len(df.cols) : df.cols[i] = YEAR }
          had == \E j \in 1..Len(src.cols) : src.cols[j] = YEAR
      IN  /\ Cardinality(named) = 1
          /\ Len(df.cols) = Len(src.cols) + (IF had THEN 0 ELSE 1)
          /\ Len(df.rows) = Len(src.rows)
          /\ \A r \in 1..Len(df.rows) :
                /\ Len(df.rows[r]) = Len(df.cols)
                /\ \A i \in named : df.rows[r][i] = dl.year
                /\ \A j \in 1..Len(src.cols) :
                      src.cols[j] # YEAR => df.rows[r][j] = src.rows[r][j]
          /\ \A j \in 2..Len(src.cols) : df.cols[j] = src.cols[j]

\* a source file with a column named exactly YEAR holding another year
\* has been read
C12_Witness ==
    /\ DlRead
    /\ DlSource.cols = <<UNITID, YEAR>>
    /\ DlSource.rows # <<>>
    /\ \A r \in 1..Len(DlSource.rows) : DlSource.rows[r][2] # dl.year

\* col is upper case, has no whitespace around it and no byte-order mark
\* in front
IsCleanHeader(col) ==
    /\ col = Upper(col)
    /\ col = Strip(col)
    /\ ~StartsWith(col, <<FEFF>>)
    /\ ~StartsWith(col, BOM_LATIN1)

(***************************************************************************)
(* C13.  clean_column_name returns a header that is already upper case,    *)
(* without byte-order mark and without surrounding whitespace, as the      *)
(* identical string.                                                       *)
(***************************************************************************)
C13_CleanIdempotent ==
    (hdr.pc \in {"prefixed", "done"} /\ IsCleanHeader(hdr.col)) => hdr.plain = hdr.col

\* the function has returned for a clean header with an underscore in it
C13_Witness ==
    /\ hdr.pc = "done"
    /\ hdr.col = <<"N", "_", "N">>
    /\ hdr.plain = hdr.col

(***************************************************************************)
(* C14 as stated.  For every raw header h and every byte-order-mark        *)
(* artifact b, with any whitespace around them, clean_column_name(b + h)   *)
(* equals clean_column_name(h).                                            *)
(***************************************************************************)
C14_BomIgnoredEveryHeader ==
    hdr.pc = "done" => hdr.prefixed = hdr.plain

\* col, after its leading whitespace, does not itself begin with a
\* byte-order-mark artifact
NoBomOfItsOwn(col) ==
    /\ ~StartsWith(Strip(col), <<FEFF>>)
    /\ ~StartsWith(Strip(col), BOM_LATIN1)

(***************************************************************************)
(* C14.  For every raw header h that does not itself begin with a          *)
(* byte-order-mark artifact, and every artifact b (U+FEFF or its           *)
(* three-character latin-1 reading) with any whitespace around them,       *)
(* clean_column_name(b + h) equals clean_column_name(h); so a header that  *)
(* reads UNITID without the artifact reads UNITID with it.                 *)
(***************************************************************************)
C14_OneBomIgnored ==
    (hdr.pc = "done" /\ NoBomOfItsOwn(hdr.col))
    => /\ hdr.prefixed = hdr.plain
       /\ hdr.prefixed = Upper(Strip(hdr.col))

\* the latin-1 artifact and a space stand before a lower-case header with
\* whitespace of its own, and both calls have returned the bare name
C14_Witness ==
    /\ hdr.pc = "done"
    /\ hdr.prefix = BOM_LATIN1 \o <<" ">>
    /\ hdr.col = <<" ", "u", " ">>
    /\ hdr.prefixed = <<"U">>

\* the positions of the columns of df that read as UNITID
UnitidColumns(df) == { i \in 1..Len(df.cols) : clean_column_name(df.cols[i]) = UNITID }

\* the positions of the rows of df whose identifier, in its first UNITID
\* column, is in S
RowsIn(df, S) ==
    LET at == CHOOSE i \in UnitidColumns(df) : \A j \in UnitidColumns(df) : i <= j
    IN  { r \in 1..Len(df.rows) : df.rows[r][at] \in S }

\* the n-th smallest element of a set of positions
Nth(P, n) == CHOOSE i \in P : Cardinality({ j \in P : j <= i }) = n

(***************************************************************************)
(* C15.  For every record set with a UNITID column (by normalized name)    *)
(* and every allow-set S, filter_by_unitids returns exactly the rows whose *)
(* identifier is in S, in their original order, with unchanged fields and  *)
(* columns.                                                                *)
(***************************************************************************)
C15_FilterKeepsAllowedRows ==
    (flt.pc = "done" /\ UnitidColumns(flt.df) # {})
    => LET kept == RowsIn(flt.df, flt.unitids)
       IN  /\ flt.result.cols = flt.df.cols
           /\ Len(flt.result.rows) = Cardinality(kept)
           /\ \A n \in 1..Cardinality(kept) :
                flt.result.rows[n] = flt.df.rows[Nth(kept, n)]

\* the ten rows have been filtered by the three identifiers, and the
\* first, third, sixth and eighth row are returned
C15_Witness ==
    /\ flt.pc = "done"
    /\ flt.df = TenRows
    /\ flt.unitids = ThreeIds
    /\ flt.result.rows = <<TenRows.rows[1], TenRows.rows[3], TenRows.rows[6], TenRows.rows[8]>>

\* the position of the column of df that reads as name, 0 when absent
ColumnRead(df, name) ==
    IF \E i \in 1..Len(df.cols) : clean_column_name(df.cols[i]) = name
    THEN CHOOSE i \in 1..Len(df.cols) : clean_column_name(df.cols[i]) = name
    ELSE 0

\* the identifiers of the rows of one downloaded HD record set that have
\* state TX and sector 1 or 4
TexasCc(df) ==
    LET unitid == ColumnRead(df, UNITID)
        stabbr == ColumnRead(df, STABBR)
        sector == ColumnRead(df, SECTOR)
    IN  { u \in 1..(MaxUnitid + MaxHdRows + 5) :
            /\ unitid # 0 /\ stabbr # 0 /\ sector # 0
            /\ \E r \in 1..Len(df.rows) :
                  /\ df.rows[r][unitid] = u
                  /\ df.rows[r][stabbr] = "TX"
                  /\ df.rows[r][sector] \in {1, 4} }

(***************************************************************************)
(* C16.  get_texas_cc_unitids(years) returns exactly the set of the        *)
(* identifiers of the HD rows, over all the given years whose download     *)
(* succeeded, that have state TX and sector 1 or 4: none that does not     *)
(* qualify, and every one that does.                                       *)
(***************************************************************************)
C16_TexasCcUnitids ==
    ids.pc = "done"
    => /\ Len(ids.seen) = Len(ids.years)
       /\ ids.result = UNION { TexasCc(ids.seen[i].df) :
                                 i \in { j \in 1..Len(ids.seen) : ids.seen[j].status = "ok" } }

\* two years were asked for; the first download failed, the second gave
\* the five rows, and the two qualifying identifiers are returned
C16_Witness ==
    /\ ids.pc = "done"
    /\ Len(ids.years) = 2
    /\ ids.seen[1].status = "None"
    /\ ids.seen[2].status = "ok"
    /\ Len(ids.seen[2].df.rows) = Len(FiveRows)
    /\ \A i \in 1..Len(FiveRows) : SubSeq(ids.seen[2].df.rows[i], 1, 3) = FiveRows[i]
    /\ ids.result = {1, 4}

\* the statements of one load of file into table, in the order of the code
LoadStatements(table, file) ==
    << Statement("CREATE FILE FORMAT IF NOT EXISTS", "ipeds_csv_infer", <<>>, <<>>, ""),
       Statement("CREATE FILE FORMAT IF NOT EXISTS", "ipeds_csv_load", <<>>, <<>>, ""),
       Statement("PUT", "", <<>>, file, ""),
       Statement("CREATE OR REPLACE TABLE", "ipeds_csv_infer", table, file, ""),
       Statement("COPY INTO", "ipeds_csv_load", table, file, "CONTINUE"),
       Statement("SELECT COUNT(*)", "", table, <<>>, ""),
       Statement("REMOVE", "", <<>>, file, "") >>

IsPrefix(p, q) == Len(p) <= Len(q) /\ p = SubSeq(q, 1, Len(p))

(***************************************************************************)
(* C17.  In every load the warehouse statements run in this order, each    *)
(* only after the one before it returned: PUT of the file to the stage,    *)
(* CREATE OR REPLACE TABLE from the schema inferred from that staged file, *)
(* COPY INTO from the same staged file with ON_ERROR = CONTINUE, SELECT    *)
(* COUNT, REMOVE of the staged file.  When a load running alone is about   *)
(* to COPY, its table has just been re-created from the staged file, and   *)
(* the staged file is there until the REMOVE.                              *)
(***************************************************************************)
C17_StatementOrder ==
    \A t \in Tasks :
        task[t].pc # "idle"
        => /\ IsPrefix(task[t].ran, LoadStatements(Table(t), Staged(t)))
           /\ (Solo(t) /\ task[t].pc \in {"copy", "count", "remove"})
              => /\ Staged(t) \in DOMAIN stage
                 /\ tables[Table(t)].exists
                 /\ tables[Table(t)].cols = stage[Staged(t)].cols
                 /\ tables[Table(t)].rows
                      = IF task[t].pc = "copy" THEN EmptyBag
                        ELSE SeqToBag(Accepted(stage[Staged(t)]))

\* a load has run all its statements and returned
C17_Witness ==
    \E t \in Tasks :
        /\ task[t].pc = "done"
        /\ task[t].ran = LoadStatements(Table(t), Staged(t))

\* the ways download_ipeds_file ends without a record set
DownloadFailures == {"RequestException", "BadZipFile", "ValueError"}

\* every row of df holds year in a column named YEAR
HasYear(df, year) ==
    /\ ColIndex(df, YEAR) # 0
    /\ \A r \in 1..Len(df.rows) : df.rows[r][ColIndex(df, YEAR)] = year

(***************************************************************************)
(* C18.  An asset task first downloads (resolve name, fetch, extract, add  *)
(* YEAR) and then loads: when the download fails the task ends with no     *)
(* connection opened, no statement executed and tables, stage and file     *)
(* formats unchanged; when load_to_snowflake starts, it holds the record   *)
(* set of a successful download, with its YEAR column, and a task that     *)
(* has executed a statement holds such a record set.                       *)
(***************************************************************************)
C18_DownloadBeforeLoad ==
    [][\A t \in Tasks :
         /\ (Quiescent(t) /\ task'[t] # task[t])
            => /\ task'[t].ran = <<>>
               /\ tables' = tables /\ stage' = stage /\ formats' = formats /\ tmp' = tmp
               /\ IF task'[t].failed_at \in DownloadFailures
                  THEN /\ task'[t].pc = "failed"
                       /\ task'[t].df = NoDf
                       /\ task'[t].conn = "none"
                       /\ task'[t].cursor = "none"
                  ELSE /\ HasYear(task'[t].df, task'[t].year)
                       /\ task'[t].pc = "format_infer" => task'[t].conn = "open"
         /\ task'[t].ran # <<>>
            => /\ HasYear(task'[t].df, task'[t].year)
               /\ task'[t].failed_at \notin DownloadFailures
      ]_vars

\* a task's download has failed after another load had filled a table
C18_Witness ==
    \E t \in Tasks :
        /\ task[t].pc = "failed"
        /\ task[t].failed_at = "BadZipFile"
        /\ task[t].conn = "none"
        /\ \E n \in TableNames : tables[n].exists /\ tables[n].rows # EmptyBag

(***************************************************************************)
(* C20 as stated.  A successful load returns to its caller the row count   *)
(* of the target table.                                                    *)
(***************************************************************************)
C20_ReturnsRowCount ==
    \A t \in Tasks :
        task[t].pc = "done" => task[t].returned = [kind |-> "int", value |-> task[t].row_count]

(***************************************************************************)
(* C20.  A successful load logs the row count of the target table, which   *)
(* it obtained by a SELECT COUNT issued right after the COPY of that load  *)
(* (for a load running alone: the number of rows of its file that COPY     *)
(* accepted, which is the number of rows the table holds), and returns     *)
(* None to its caller.                                                     *)
(***************************************************************************)
C20_LogsRowCount ==
    \A t \in Tasks :
        task[t].pc = "done"
        => /\ task[t].logged = task[t].row_count
           /\ task[t].returned = ReturnsNone
           /\ \E i \in 1..(Len(task[t].ran) - 1) :
                /\ task[t].ran[i].verb = "COPY INTO"
                /\ task[t].ran[i + 1].verb = "SELECT COUNT(*)"
                /\ task[t].ran[i + 1].table = task[t].ran[i].table
           /\ Solo(t) => /\ task[t].row_count = BagCardinality(tables[Table(t)].rows)
                         /\ task[t].row_count = Len(Accepted(to_csv(task[t].df)))

\* a load running alone has returned after logging a count of one row,
\* its file having held a second row that COPY skipped
C20_Witness ==
    \E t \in Tasks :
        /\ Solo(t)
        /\ task[t].pc = "done"
        /\ task[t].logged = 1
        /\ Len(task[t].df.rows) = 2

\* the statements of the upload script's loop body for one file
UnitStatements(file) == SubSeq(LoadStatements(StemUpper(file), file), 3, 7)

RECURSIVE UnitsRan(_, _)
\* the statements of a run whose units ended as out tells: all of a loaded
\* unit, those before the failed one of a unit with an error
UnitsRan(out, n) ==
    IF n = 0 THEN <<>>
    ELSE UnitsRan(out, n - 1)
         \o (IF out[n].status = "loaded" THEN UnitStatements(out[n].file)
             ELSE LET at == CHOOSE k \in 1..5 :
                               <<"put", "create", "copy", "count", "remove">>[k] = out[n].at
                  IN  SubSeq(UnitStatements(out[n].file), 1, at - 1))

\* every file of a finished run of the upload script had its statements
\* executed in the order PUT, CREATE OR REPLACE TABLE, COPY INTO, SELECT
\* COUNT, REMOVE, up to the first that failed
UploadStatementOrder ==
    up.pc = "done"
    => /\ Len(up.ran) >= 2
       /\ SubSeq(up.ran, 3, Len(up.ran)) = UnitsRan(up.out, Len(up.out))

\* the units of a run of the upload script that ended with an error
FailedUnits == { n \in 1..Len(up.out) : up.out[n].status = "error" }
LoadedUnits == { n \in 1..Len(up.out) : up.out[n].status = "loaded" }

(***************************************************************************)
(* C19.  An error within one unit aborts only that unit: in the upload     *)
(* script's loop over files a failed unit produces no output for itself    *)
(* (its table and the stage are as before the run), every remaining unit   *)
(* is still processed, and the tables of the units that completed hold     *)
(* what their loads put there.                                             *)
(***************************************************************************)
C19_FailedUnitLeavesNothing ==
    up.pc = "done"
    => /\ Len(up.out) = Len(up.csv_files)
       /\ \A n \in 1..Len(up.out) : up.out[n].file = up.csv_files[n]
       /\ \A n \in LoadedUnits :
            tables[StemUpper(up.out[n].file)]
              = CopyInto(CreateOrReplace(NoTable, to_csv(up.seeds[up.out[n].file])),
                         to_csv(up.seeds[up.out[n].file]))
       /\ \A n \in FailedUnits :
            /\ tables[StemUpper(up.out[n].file)] = up.before[StemUpper(up.out[n].file)]
            /\ up.out[n].file \notin DOMAIN stage

\* the rest of what C19 says of the upload script: every file is processed
\* whatever happened to the ones before it, and the tables of the loaded
\* files hold their rows
UploadUnitsIndependent ==
    up.pc = "done"
    => /\ Len(up.out) = Len(up.csv_files)
       /\ \A n \in 1..Len(up.out) : up.out[n].file = up.csv_files[n]
       /\ \A n \in LoadedUnits :
            tables[StemUpper(up.out[n].file)]
              = CopyInto(CreateOrReplace(NoTable, to_csv(up.seeds[up.out[n].file])),
                         to_csv(up.seeds[up.out[n].file]))
       /\ \A n \in FailedUnits :
            up.out[n].at \in {"put", "create"}
            => tables[StemUpper(up.out[n].file)] = up.before[StemUpper(up.out[n].file)]

\* the table a load of df leaves when it runs alone and succeeds
OnceLoaded(df) == CopyInto(CreateOrReplace(NoTable, to_csv(df)), to_csv(df))

\* task t's load began when the table held what a load of the same record
\* set leaves, and ran alone
Reload(t) ==
    /\ Solo(t)
    /\ snap[Table(t)] = OnceLoaded(task[t].df)

(***************************************************************************)
(* C21.  Reload of a partition is idempotent: a load that runs to its end  *)
(* for the same dataset, year and record set as the successful load before *)
(* it leaves every table as that load left it, and the stage and /tmp      *)
(* without its file, as after the first load.                              *)
(***************************************************************************)
C21_ReloadIdempotent ==
    \A t \in Tasks :
        (Reload(t) /\ task[t].pc = "done")
        => /\ tables = snap
           /\ Staged(t) \notin DOMAIN stage
           /\ TempCsv(t) \notin DOMAIN tmp

\* a second task has loaded, alone and to the end, the dataset, year and
\* record set that the first task had loaded before it, with rows in the table
C21_Witness ==
    \E t \in Tasks, u \in Tasks :
        /\ t # u
        /\ Reload(t)
        /\ task[t].pc = "done"
        /\ task[u].pc = "done"
        /\ task[u].asset = task[t].asset
        /\ task[u].year = task[t].year
        /\ task[u].df = task[t].df
        /\ tables[Table(t)].rows # EmptyBag

\* the files main has written for a dataset other than HD whose record set
\* has an identifier column
IdentifiedFiles ==
    { n \in DOMAIN main.files : /\ main.files[n].dataset # HD
                                /\ UnitidColumns(main.files[n].csv) # {} }

\* every row of csv has its identifier in S
RowsWithin(csv, S) == RowsIn(csv, S) = 1..Len(csv.rows)

(***************************************************************************)
(* C22.  When the download script runs with --filter-texas, every row      *)
(* written to the output file of a dataset other than HD that has an       *)
(* identifier column has its UNITID in the set get_texas_cc_unitids        *)
(* returned; when that set is empty, no row is written.                    *)
(***************************************************************************)
C22_FilterTexasRowsInSet ==
    (main.pc \in {"unit", "done"} /\ main.filter_texas)
    => \A n \in IdentifiedFiles : RowsWithin(main.files[n].csv, main.texas_cc_unitids)

\* what does hold of the script: the rows written are within the set when
\* the set is not empty
FilterTexasNonEmptySet ==
    (main.pc \in {"unit", "done"} /\ main.filter_texas /\ main.texas_cc_unitids # {})
    => \A n \in IdentifiedFiles : RowsWithin(main.files[n].csv, main.texas_cc_unitids)

\* a URL without its t parameter
ExceptTimestamp(url) ==
    [url EXCEPT !.query = SelectSeq(@, LAMBDA param : param[1] # "t")]

BothResolved ==
    /\ rs.pc = "resolve"
    /\ rs.script # NotResolved
    /\ rs.pipeline # NotResolved

(***************************************************************************)
(* C23.  For every dataset code the script accepts and every year, the     *)
(* table name and the URL of its era, the timestamp apart, that            *)
(* download_dataset computes equal those that get_table_name and           *)
(* download_ipeds_file compute.                                            *)
(***************************************************************************)
C23_ResolversAgree ==
    BothResolved
    => /\ rs.script.table_name = rs.pipeline.table_name
       /\ ExceptTimestamp(rs.script.url) = ExceptTimestamp(rs.pipeline.url)

\* both have resolved a financial-aid table of the generator era at
\* different times
C23_Witness ==
    /\ BothResolved
    /\ rs.code = SFA
    /\ rs.year >= CutoverYear
    /\ rs.script.url # rs.pipeline.url

BothNamed ==
    /\ nm.pc = "name"
    /\ nm.names[1] # NotNamed
    /\ nm.names[2] # NotNamed

\* the target table and partition year of the i-th load
TargetOf(i) == <<AssetTable(nm.units[i].asset), nm.units[i].year>>

\* a stage location names every file whose path begins with it
Names(location, file) == IsPrefix(location, file)

(***************************************************************************)
(* C24.  Two loads whose pairs of target table and partition year differ,  *)
(* over the six declared datasets and the partitions 2020 to 2024, have    *)
(* different staged file names and different temporary file paths, so      *)
(* neither writes, reads or removes the other's file.                      *)
(***************************************************************************)
C24_DistinctUnitsDistinctFiles ==
    (BothNamed /\ TargetOf(1) # TargetOf(2))
    => /\ nm.names[1].csv_filename # nm.names[2].csv_filename
       /\ nm.names[1].temp_csv # nm.names[2].temp_csv
       /\ ~Names(nm.names[1].csv_filename, nm.names[2].csv_filename)
       /\ ~Names(nm.names[2].csv_filename, nm.names[1].csv_filename)

\* both loads are named: one table in two partitions
C24_Witness ==
    /\ BothNamed
    /\ nm.units[1].asset = nm.units[2].asset
    /\ nm.units[1].year # nm.units[2].year
    /\ nm.names[1].csv_filename # nm.names[2].csv_filename

\* in the load machine, a step of a task changes no staged or temporary
\* file but the task's own
TasksTouchOwnFilesOnly ==
    [][\A t \in Tasks :
         task'[t] # task[t]
         => IF task[t].asset = "none" THEN stage' = stage /\ tmp' = tmp
            ELSE
            /\ \A f \in (DOMAIN stage \cup DOMAIN stage') \ {Staged(t)} :
                 f \in DOMAIN stage /\ f \in DOMAIN stage' /\ stage'[f] = stage[f]
            /\ \A f \in (DOMAIN tmp \cup DOMAIN tmp') \ {TempCsv(t)} :
                 f \in DOMAIN tmp /\ f \in DOMAIN tmp' /\ tmp'[f] = tmp[f]]_vars

\* the tables of the datasets other than the one task t loads
OtherTables(t) == TableNames \ {AssetTable(task[t].asset)}

(***************************************************************************)
(* C25.  A load for a dataset changes, in the warehouse, only the table of *)
(* that dataset: at every step of the load, whether it goes on to succeed  *)
(* or to fail, rows and schema of every other dataset's table are          *)
(* unchanged.                                                              *)
(***************************************************************************)
C25_OtherTablesUnchanged ==
    [][\A t \in Tasks :
         task'[t] # task[t]
         => IF task[t].asset = "none" THEN tables' = tables
            ELSE \A n \in OtherTables(t) : tables'[n] = tables[n]]_vars

\* one load has failed after it re-created its table and a load of another
\* dataset has succeeded and its table holds rows
C25_Witness ==
    \E t \in Tasks, u \in Tasks :
        /\ task[t].pc = "failed"
        /\ task[t].failed_at \in {"copy", "count", "remove"}
        /\ task[u].pc = "done"
        /\ task[u].asset # task[t].asset
        /\ tables[AssetTable(task[u].asset)].rows # EmptyBag

====
